---- MODULE Spec2Model ----
(***************************************************************************)
(* A model of the analysis engine of the data-detective platform:         *)
(*   app/anomaly_detection.py  detect_anomalies,                          *)
(*                             detect_time_series_anomalies               *)
(*                             explain_anomalies                          *)
(*   app/sanity_checker.py     detect_outliers, detect_duplicates,        *)
(*                             check_data_consistency                     *)
(*   app/data_flow_mapper.py   detect_glitches                            *)
(*   app/challenge_mode.py     run_challenge_mode                         *)
(*   app/cloud_integration.py  SimulatedAWS                               *)
(*   app/dashboard.py          main and the session the pages share       *)
(* Each engine function is a call that moves through the statements of    *)
(* its body (pc); a call ends either by returning the pair                *)
(* (result, error) or by an exception leaving the function (raised).      *)
(* Floating-point quantities are kept exact as integer fractions.         *)
(***************************************************************************)
EXTENDS Integers, Sequences, FiniteSets, TLC

VARIABLES
    fn,             \* the engine function being called
    pc,             \* position of the running call
    df,             \* the caller's dataset
    result,         \* first component of the returned pair
    error,          \* second component of the returned pair
    raised,         \* exception that left the function, or None
    \* detect_anomalies
    algorithm, contamination, numeric_cols, X_scaled, model, predictions,
    \* detect_time_series_anomalies
    time_col, value_col, window, threshold, df_ts,
    \* detect_outliers
    method, outliers,
    \* check_data_consistency, and the clock it reads
    issues, date_cols, now, previous,
    \* explain_anomalies
    explanations,
    \* engine calls running at the same time
    calls,
    \* data flow mapper: the graph given to detect_glitches
    G,
    \* the Streamlit session and process: st.session_state, sys.modules,
    \* what the last script run showed, whether Send was ever pressed
    session_state, modules, shown, pressed,
    \* SimulatedAWS: self.buckets, self.data, the arguments of the last call,
    \* and the uploads made so far
    buckets, data, request, uploads

callVars == <<fn, pc, df, result, error, raised>>
daVars == <<algorithm, contamination, numeric_cols, X_scaled, model, predictions>>
tsVars == <<time_col, value_col, window, threshold, df_ts>>
scVars == <<method, outliers>>
ccVars == <<issues, date_cols, now, previous>>
exVars == <<explanations>>
coVars == <<calls>>
gVars == <<G>>
uiVars == <<session_state, modules, shown, pressed>>
awsVars == <<buckets, data, request, uploads>>
appVars == <<coVars, gVars, uiVars, awsVars>>
engineVars == <<daVars, tsVars, scVars, ccVars, exVars>>
vars == <<callVars, daVars, tsVars, scVars, ccVars, exVars, appVars>>

(***************************************************************************)
(* Bounds of the model.                                                    *)
(***************************************************************************)
MaxRows == 3        \* rows of a dataset given to detect_anomalies
MaxCols == 2        \* columns of a dataset given to detect_anomalies
MaxSeriesRows == 3  \* rows of a small time series
MaxWindow == 4      \* largest window tried on a small time series
SpikeValue == 50    \* height of the spike in the long series
MaxLen == 4         \* values of a column given to detect_outliers
MaxValue == 3       \* largest value of such a column
MaxShift == 2       \* largest constant added to a column
MaxDupRows == 3     \* rows of a dataset given to detect_duplicates
MaxCheckRows == 2   \* rows of a dataset given to check_data_consistency
MaxNow == 2         \* latest instant the clock reaches
MaxExplainRows == 3 \* rows of a dataset given to explain_anomalies
MaxCalls == 2       \* engine calls running at the same time
MaxEdges == 3       \* edges of a graph given to detect_glitches
MaxUploads == 2     \* upload_data calls made on one SimulatedAWS
MaxHints == 3       \* hints taken on one level

(***************************************************************************)
(* Python values.                                                          *)
(***************************************************************************)
None == [kind |-> "None"]

Str(words) == [kind |-> "str", words |-> words]

\* str.lower() on the words the engine's messages are made of
Lower(w) ==
    CASE w = "No" -> "no"
      [] w = "Time" -> "time"
      [] w = "IQR" -> "iqr"
      [] w = "Z-Score" -> "z-score"
      [] OTHER -> w

\* `sub in s.lower()` for a one-word sub
ContainsLower(s, sub) ==
    /\ s.kind = "str"
    /\ \E i \in 1..Len(s.words) : Lower(s.words[i]) = sub

Range(s) == {s[i] : i \in 1..Len(s)}

SeqsUpTo(S, n) == UNION {[1..k -> S] : k \in 0..n}

(***************************************************************************)
(* Datasets: an index of nrows rows and a sequence of typed columns.       *)
(***************************************************************************)
Column(name, dtype, vals) == [name |-> name, dtype |-> dtype, vals |-> vals]

DataFrame(nrows, columns) == [nrows |-> nrows, columns |-> columns]

NoFrame == DataFrame(0, <<>>)

\* df.columns
Columns(d) == {d.columns[i].name : i \in 1..Len(d.columns)}

\* df.select_dtypes(include=[np.number]).columns
SelectNumber(d) ==
    LET IsNum(c) == c.dtype = "number"
        sel == SelectSeq(d.columns, IsNum)
    IN  [i \in 1..Len(sel) |-> sel[i].name]

(***************************************************************************)
(* detect_anomalies(df, algorithm, contamination)                          *)
(***************************************************************************)
Algorithms == {"Isolation Forest", "One-Class SVM", "Local Outlier Factor"}

\* algorithm names a caller can pass: the three supported ones and another
AlgorithmInputs == Algorithms \cup {"KMeans"}

\* contamination in hundredths: -0.1, 0, 0.1, 0.5, 0.6
ContaminationInputs == {-10, 0, 10, 50, 60}

FeatureName(i) == IF i = 1 THEN "feature1" ELSE IF i = 2 THEN "feature2" ELSE "feature3"

DetectFrames ==
    {DataFrame(n,
        [i \in 1..Len(dt) |->
            Column(FeatureName(i), dt[i],
                   [r \in 1..n |-> IF dt[i] = "number" THEN r ELSE "a"])]) :
        n \in 0..MaxRows, dt \in SeqsUpTo({"number", "object"}, MaxCols)}

NoNumericMessage ==
    Str(<<"No", "numeric", "columns", "found", "for", "anomaly", "detection">>)

NoModel == [kind |-> "None", fitted |-> FALSE]

Unbound == [kind |-> "unbound"]

IdleDA ==
    /\ algorithm = "" /\ contamination = 0 /\ numeric_cols = <<>>
    /\ X_scaled = None /\ model = NoModel /\ predictions = Unbound

IdleTS ==
    /\ time_col = "" /\ value_col = "" /\ window = 0 /\ threshold = 0
    /\ df_ts = None

IdleSC ==
    /\ method = "" /\ outliers = None

IdleCC ==
    /\ issues = <<>> /\ date_cols = <<>> /\ now = 0 /\ previous = None

IdleEX ==
    /\ explanations = <<>>

\* no engine call is running
IdleCO ==
    /\ calls = <<>>

\* no graph yet
IdleG ==
    /\ G = [nodes |-> {}, edges |-> {}]

\* a fresh process and a fresh session: nothing imported, no key set
IdleUI ==
    /\ session_state = <<>> /\ modules = {} /\ shown = None /\ pressed = FALSE

\* SimulatedAWS.__init__
IdleAWS ==
    /\ buckets = <<>> /\ data = <<>> /\ request = None /\ uploads = <<>>

Init ==
    /\ fn = "" /\ pc = "idle" /\ df = NoFrame
    /\ result = None /\ error = None /\ raised = None
    /\ IdleDA /\ IdleTS /\ IdleSC /\ IdleCC /\ IdleEX
    /\ IdleCO /\ IdleG /\ IdleUI /\ IdleAWS

Exception(type) == [kind |-> "exception", type |-> type]

Raise(exc) ==
    /\ pc' = "raised"
    /\ raised' = Exception(exc)
    /\ UNCHANGED <<fn, df, result, error>>

Return(res, err) ==
    /\ pc' = "returned"
    /\ result' = res
    /\ error' = err
    /\ UNCHANGED <<fn, df, raised>>

Goto(label) ==
    /\ pc' = label
    /\ UNCHANGED <<fn, df, result, error, raised>>

\* a caller invokes detect_anomalies
CallDetectAnomalies ==
    /\ pc = "idle"
    /\ \E d \in DetectFrames, a \in AlgorithmInputs, c \in ContaminationInputs :
        /\ df' = d
        /\ algorithm' = a
        /\ contamination' = c
    /\ fn' = "detect_anomalies"
    /\ pc' = "da_select"
    /\ UNCHANGED <<result, error, raised, numeric_cols, X_scaled, model, predictions>>
    /\ UNCHANGED <<tsVars, scVars, ccVars, exVars, appVars>>

NoNumericColumnsNever(cols) == FALSE

\* `len(numeric_cols) == 0`
NoNumericColumns(cols) == Len(cols) = 0

\* numeric_cols = ...; if len(numeric_cols) == 0: return None, "No numeric ..."
SelectNumericCols ==
    /\ pc = "da_select"
    /\ numeric_cols' = SelectNumber(df)
    /\ IF NoNumericColumns(numeric_cols')
       THEN Return(None, NoNumericMessage)
       ELSE Goto("da_scale")
    /\ UNCHANGED <<algorithm, contamination, X_scaled, model, predictions>>
    /\ UNCHANGED <<tsVars, scVars, ccVars, exVars, appVars>>

\* X = df[numeric_cols].values; X_scaled = StandardScaler().fit_transform(X)
\* (sklearn's check_array refuses an array with no sample or no feature)
ScaleData ==
    /\ pc = "da_scale"
    /\ IF df.nrows = 0 \/ Len(numeric_cols) = 0
       THEN /\ Raise("ValueError")
            /\ UNCHANGED X_scaled
       ELSE /\ X_scaled' = [kind |-> "array", rows |-> df.nrows,
                            cols |-> Len(numeric_cols)]
            /\ Goto("da_construct")
    /\ UNCHANGED <<algorithm, contamination, numeric_cols, model, predictions>>
    /\ UNCHANGED <<tsVars, scVars, ccVars, exVars, appVars>>

\* the branch of the if/elif chain taken for an algorithm name; "" for none
Branch(a) == IF a \in Algorithms THEN a ELSE ""

\* model = IsolationForest(...) / OneClassSVM(...) / LocalOutlierFactor(...):
\* the constructors store their parameters and validate nothing
ConstructModel ==
    /\ pc = "da_construct"
    /\ IF Branch(algorithm) = ""
       THEN /\ Goto("da_label")
            /\ UNCHANGED model
       ELSE /\ model' = [kind |-> Branch(algorithm), fitted |-> FALSE]
            /\ Goto("da_predict")
    /\ UNCHANGED <<algorithm, contamination, numeric_cols, X_scaled, predictions>>
    /\ UNCHANGED <<tsVars, scVars, ccVars, exVars, appVars>>

\* LocalOutlierFactor accepts contamination in (0, 0.5]
LofContaminationOk(c) == 0 < c /\ c <= 50

\* the labelings a fitted model can give n rows: -1 anomalous, 1 normal
Labelings(n) == [1..n -> {-1, 1}]

\* negative_outlier_factor_: about -1 for inliers, lower for outliers
Scores(p) == [i \in 1..Len(p) |-> IF p[i] = -1 THEN -2 ELSE -1]

\* predictions = model.predict(X_scaled) on the model just constructed
\* (check_is_fitted raises), or model.fit_predict(X_scaled) for the
\* Local Outlier Factor (parameter validation, then the neighbour query,
\* which needs a second sample)
PredictModel ==
    /\ pc = "da_predict"
    /\ IF model.kind \in {"Isolation Forest", "One-Class SVM"}
       THEN /\ Raise("NotFittedError")
            /\ UNCHANGED <<model, predictions>>
       ELSE IF ~LofContaminationOk(contamination)
       THEN /\ Raise("InvalidParameterError")
            /\ UNCHANGED <<model, predictions>>
       ELSE IF X_scaled.rows < 2
       THEN /\ Raise("ValueError")
            /\ UNCHANGED <<model, predictions>>
       ELSE /\ model' = [model EXCEPT !.fitted = TRUE]
            /\ \E p \in Labelings(X_scaled.rows) :
                  predictions' = [kind |-> "array", labels |-> p, scores |-> Scores(p)]
            /\ Goto("da_label")
    /\ UNCHANGED <<algorithm, contamination, numeric_cols, X_scaled>>
    /\ UNCHANGED <<tsVars, scVars, ccVars, exVars, appVars>>

\* anomalies = (predictions == -1)
AnomalyMask(p) == [i \in 1..Len(p) |-> p[i] = -1]

\* anomalies = (predictions == -1); return {...}, None
\* (no branch taken: the name predictions is unbound)
LabelAndReturn ==
    /\ pc = "da_label"
    /\ IF predictions = Unbound
       THEN Raise("UnboundLocalError")
       ELSE Return([kind |-> "dict",
                    predictions |-> predictions.labels,
                    anomalies |-> AnomalyMask(predictions.labels),
                    scores |-> predictions.scores,
                    model |-> model,
                    numeric_cols |-> numeric_cols], None)
    /\ UNCHANGED <<daVars, tsVars, scVars, ccVars, exVars, appVars>>

NextDetect ==
    \/ CallDetectAnomalies
    \/ SelectNumericCols
    \/ ScaleData
    \/ ConstructModel
    \/ PredictModel
    \/ LabelAndReturn

SpecDetect == Init /\ [][NextDetect]_vars

(***************************************************************************)
(* detect_time_series_anomalies(df, time_col, value_col, window, threshold)*)
(***************************************************************************)
DefaultWindow == 10

DefaultThreshold == 2

\* the strings pd.to_datetime can read as dates, in calendar order
Dates ==
    <<"2023-01-01", "2023-01-02", "2023-01-03", "2023-01-04", "2023-01-05",
      "2023-01-06", "2023-01-07", "2023-01-08", "2023-01-09", "2023-01-10",
      "2023-01-11", "2023-01-12", "2023-01-13">>

\* a string that is no date
NotADate == "soon"

Parseable(s) == \E i \in 1..Len(Dates) : Dates[i] = s

\* pd.to_datetime of one cell: the day the string names
ToDatetime(s) == CHOOSE i \in 1..Len(Dates) : Dates[i] = s

\* df[name]
Col(d, name) ==
    LET i == CHOOSE j \in 1..Len(d.columns) : d.columns[j].name = name
    IN  d.columns[i]

TimeInputs == {Dates[1], Dates[2], NotADate}

ValueInputs == {0, 1, 2}

WindowInputs == (-1)..MaxWindow

ThresholdInputs == {-1, 0, 1, DefaultThreshold}

\* frames with a 'date' and a 'value' column, and frames with 'value' only
SmallSeriesFrames ==
    UNION {
        {DataFrame(n, <<Column("date", "object", t), Column("value", "number", v)>>) :
            t \in [1..n -> TimeInputs], v \in [1..n -> ValueInputs]}
        \cup {DataFrame(n, <<Column("value", "number", v)>>) :
            v \in [1..n -> ValueInputs]} :
        n \in 0..MaxSeriesRows}

SpikeRows == DefaultWindow + 2

\* an otherwise smooth series (0, 1, 0, 1, ...) with one large spike at row
\* p, the rows given in calendar order or in reverse
SpikeFrames ==
    {DataFrame(SpikeRows,
        <<Column("date", "object",
                 [r \in 1..SpikeRows |->
                     Dates[IF rev THEN SpikeRows + 1 - r ELSE r]]),
          Column("value", "number",
                 [r \in 1..SpikeRows |-> IF r = p THEN SpikeValue ELSE r % 2])>>) :
        p \in 1..SpikeRows, rev \in BOOLEAN}

SeriesFrames == SmallSeriesFrames \cup SpikeFrames

ColumnNotFoundMessage == Str(<<"Time", "or", "value", "column", "not", "found">>)

\* a caller invokes detect_time_series_anomalies
CallDetectTimeSeries ==
    /\ pc = "idle"
    /\ \E d \in SeriesFrames, vc \in {"value", "amount"},
          w \in WindowInputs \cup {DefaultWindow}, th \in ThresholdInputs :
        /\ df' = d
        /\ time_col' = "date"
        /\ value_col' = vc
        /\ window' = w
        /\ threshold' = th
    /\ fn' = "detect_time_series_anomalies"
    /\ pc' = "ts_check"
    /\ UNCHANGED <<result, error, raised, df_ts>>
    /\ UNCHANGED <<daVars, scVars, ccVars, exVars, appVars>>

ColumnMissingBoth(d, tc, vc) == tc \notin Columns(d) /\ vc \notin Columns(d)

\* `time_col not in df.columns or value_col not in df.columns`
ColumnMissing(d, tc, vc) == tc \notin Columns(d) \/ vc \notin Columns(d)

\* if ...: return None, "Time or value column not found"
CheckColumns ==
    /\ pc = "ts_check"
    /\ IF ColumnMissing(df, time_col, value_col)
       THEN Return(None, ColumnNotFoundMessage)
       ELSE Goto("ts_convert")
    /\ UNCHANGED <<daVars, tsVars, scVars, ccVars, exVars, appVars>>

\* the rows of the copy: index label, converted time, value
Rows(d, tc, vc) ==
    [r \in 1..d.nrows |->
        [index |-> r,
         time |-> ToDatetime(Col(d, tc).vals[r]),
         value |-> IF vc \in Columns(d) THEN Col(d, vc).vals[r] ELSE 0]]

CallerFrameAliased(d, tc) ==
    [d EXCEPT !.columns =
        [i \in 1..Len(d.columns) |->
            IF d.columns[i].name = tc
                THEN Column(tc, "datetime",
                            [r \in 1..d.nrows |-> ToDatetime(d.columns[i].vals[r])])
                ELSE d.columns[i]]]

\* the caller's frame after df_ts[time_col] = pd.to_datetime(...): df_ts is
\* df.copy(), the assignment does not reach df
CallerFrame(d, tc) == d

\* df_ts = df.copy(); df_ts[time_col] = pd.to_datetime(df_ts[time_col])
CopyAndConvert ==
    /\ pc = "ts_convert"
    /\ IF time_col \notin Columns(df)
       THEN /\ Raise("KeyError")
            /\ UNCHANGED df_ts
       ELSE IF \E r \in 1..df.nrows : ~Parseable(Col(df, time_col).vals[r])
       THEN /\ Raise("ValueError")
            /\ UNCHANGED df_ts
       ELSE /\ df_ts' = [kind |-> "frame", sorted |-> FALSE,
                         rows |-> Rows(df, time_col, value_col)]
            /\ df' = CallerFrame(df, time_col)
            /\ pc' = "ts_sort"
            /\ UNCHANGED <<fn, result, error, raised>>
    /\ UNCHANGED <<time_col, value_col, window, threshold>>
    /\ UNCHANGED <<daVars, scVars, ccVars, exVars, appVars>>

MinTime(rows, S) == CHOOSE m \in {rows[i].time : i \in S} :
                        \A i \in S : m <= rows[i].time

\* every arrangement of the rows in S that ascends by time: sort_values
\* with its default kind='quicksort', which keeps no order among ties
RECURSIVE Ascending(_, _)
Ascending(rows, S) ==
    IF S = {} THEN {<<>>}
    ELSE LET first == {i \in S : rows[i].time = MinTime(rows, S)}
         IN  UNION {{<<rows[i]>> \o rest : rest \in Ascending(rows, S \ {i})} :
                        i \in first}

\* the orders sort_values(time_col) can leave the rows in
SortValues(rows) == Ascending(rows, 1..Len(rows))

\* df_ts = df_ts.sort_values(time_col)
SortByTime ==
    /\ pc = "ts_sort"
    /\ \E sorted \in SortValues(df_ts.rows) :
          df_ts' = [df_ts EXCEPT !.rows = sorted, !.sorted = TRUE]
    /\ Goto("ts_rolling")
    /\ UNCHANGED <<time_col, value_col, window, threshold>>
    /\ UNCHANGED <<daVars, scVars, ccVars, exVars, appVars>>

(***************************************************************************)
(* Floats, kept exact.  NaN is its own value; a rolling mean is the        *)
(* fraction num/den; a rolling std is the square root of num/den; a        *)
(* z-score is sign * sqrt(num/den), infinite when den = 0 < num.           *)
(***************************************************************************)
NaN == [nan |-> TRUE, sign |-> 0, num |-> 0, den |-> 1]

Number(sign, num, den) == [nan |-> FALSE, sign |-> sign, num |-> num, den |-> den]

Sign(x) == IF x > 0 THEN 1 ELSE IF x < 0 THEN -1 ELSE 0

RECURSIVE SumOver(_, _, _)
SumOver(f, lo, hi) == IF lo > hi THEN 0 ELSE f[lo] + SumOver(f, lo + 1, hi)

Values(rows) == [i \in 1..Len(rows) |-> rows[i].value]

Squares(v) == [i \in 1..Len(v) |-> v[i] * v[i]]

\* the first row of the window that ends at row i
WindowStart(i, w) == i - w + 1

\* .rolling(window=w).mean() at row i: NaN until w observations are there
RollingMean(v, i, w) ==
    IF w < 1 \/ i < w THEN NaN
    ELSE LET s == SumOver(v, WindowStart(i, w), i)
         IN  Number(Sign(s), s, w)

VarDivisorPopulation(w) == w

\* the divisor of the variance: pandas' rolling std has ddof=1
VarDivisor(w) == w - 1

\* .rolling(window=w).std() at row i, as its square
\*    (w * sum(x^2) - sum(x)^2) / (w * (w - 1))
RollingStd(v, i, w) ==
    IF w < 1 \/ i < w \/ VarDivisor(w) < 1 THEN NaN
    ELSE LET s  == SumOver(v, WindowStart(i, w), i)
             ss == SumOver(Squares(v), WindowStart(i, w), i)
         IN  Number(1, w * ss - s * s, w * VarDivisor(w))

ZScoreRoundedMean(x, mean, std) ==
    IF mean.nan \/ std.nan THEN NaN
    ELSE LET d == x * mean.den - mean.num
         IN  IF std.num = 0 THEN Number(1, 1, 0)
             ELSE Number(Sign(d), d * d * std.den, mean.den * mean.den * std.num)

\* (value - rolling_mean) / rolling_std, as sign and square; 0/0 is NaN
ZScore(x, mean, std) ==
    IF mean.nan \/ std.nan THEN NaN
    ELSE LET d == x * mean.den - mean.num
         IN  IF std.num = 0 /\ d = 0 THEN NaN
             ELSE Number(Sign(d), d * d * std.den, mean.den * mean.den * std.num)

AbsGreaterOrNaN(z, th) ==
    \/ z.nan
    \/ th < 0
    \/ z.num > th * th * z.den

\* abs(z) > threshold; a comparison with NaN is False
AbsGreater(z, th) ==
    /\ ~z.nan
    /\ \/ th < 0
       \/ z.num > th * th * z.den

\* df_ts['rolling_mean'] = ...; df_ts['rolling_std'] = ...
\* (rolling() refuses a negative window)
RollingStatistics ==
    /\ pc = "ts_rolling"
    /\ IF value_col \notin Columns(df)
       THEN /\ Raise("KeyError")
            /\ UNCHANGED df_ts
       ELSE IF window < 0
       THEN /\ Raise("ValueError")
            /\ UNCHANGED df_ts
       ELSE /\ LET v == Values(df_ts.rows)
               IN  df_ts' =
                     [kind |-> "frame", sorted |-> TRUE, rows |-> df_ts.rows,
                      rolling_mean |-> [i \in 1..Len(v) |-> RollingMean(v, i, window)],
                      rolling_std |-> [i \in 1..Len(v) |-> RollingStd(v, i, window)]]
            /\ Goto("ts_zscore")
    /\ UNCHANGED <<time_col, value_col, window, threshold>>
    /\ UNCHANGED <<daVars, scVars, ccVars, exVars, appVars>>

\* df_ts['z_score'] = ...; anomalies = abs(df_ts['z_score']) > threshold;
\* return {...}, None
ZScoreAndReturn ==
    /\ pc = "ts_zscore"
    /\ LET n == Len(df_ts.rows)
           z == [i \in 1..n |->
                    ZScore(df_ts.rows[i].value, df_ts.rolling_mean[i],
                           df_ts.rolling_std[i])]
       IN  Return([kind |-> "dict",
                   index |-> [i \in 1..n |-> df_ts.rows[i].index],
                   anomalies |-> [i \in 1..n |-> AbsGreater(z[i], threshold)],
                   z_scores |-> z,
                   rolling_mean |-> df_ts.rolling_mean,
                   rolling_std |-> df_ts.rolling_std], None)
    /\ UNCHANGED <<daVars, tsVars, scVars, ccVars, exVars, appVars>>

NextSeries ==
    \/ CallDetectTimeSeries
    \/ CheckColumns
    \/ CopyAndConvert
    \/ SortByTime
    \/ RollingStatistics
    \/ ZScoreAndReturn

SpecSeries == Init /\ [][NextSeries]_vars

(***************************************************************************)
(* detect_outliers(df, method)                                             *)
(***************************************************************************)
\* the columns of the repository's tests, and one whose largest value lies
\* exactly on the upper IQR bound (Q1 = 0, Q3 = 2, bound 5)
IqrTestColumn == <<1, 2, 3, 4, 5, 100>>

ZscoreTestColumn == <<1, 2, 3, 4, 5, 50>>

BoundaryColumn == <<0, 0, 0, 2, 5>>

NumericColumns ==
    SeqsUpTo(0..MaxValue, MaxLen)
        \cup {IqrTestColumn, ZscoreTestColumn, BoundaryColumn}

Reverse(c) == [i \in 1..Len(c) |-> c[Len(c) + 1 - i]]

\* one numeric column; a text column before it; a second numeric column
OutlierFrames ==
    UNION {
        {DataFrame(Len(c), <<Column("value", "number", c)>>),
         DataFrame(Len(c), <<Column("name", "object", [i \in 1..Len(c) |-> "a"]),
                             Column("value", "number", c)>>),
         DataFrame(Len(c), <<Column("value", "number", c),
                             Column("amount", "number", Reverse(c))>>)} :
        c \in NumericColumns}

\* the method strings a caller passes: the two the function knows, and
\* "Z-Score".lower()
MethodInputs == {"iqr", "zscore", "z-score"}

\* a caller invokes detect_outliers
CallDetectOutliers ==
    /\ pc = "idle"
    /\ \E d \in OutlierFrames, m \in MethodInputs :
        /\ df' = d
        /\ method' = m
    /\ fn' = "detect_outliers"
    /\ pc' = "sc_outliers"
    /\ outliers' = [kind |-> "dict", items |-> <<>>]
    /\ UNCHANGED <<result, error, raised>>
    /\ UNCHANGED <<daVars, tsVars, ccVars, exVars, appVars>>

\* the options of the selectbox "Outlier detection method:"
OutlierMethodOptions == {"IQR", "Z-Score"}

\* run_sanity_checker with the Outliers check selected:
\* outliers = detect_outliers(df, outlier_method.lower())
SelectOutlierMethod ==
    /\ pc = "idle"
    /\ \E d \in OutlierFrames, outlier_method \in OutlierMethodOptions :
        /\ df' = d
        /\ method' = Lower(outlier_method)
    /\ fn' = "run_sanity_checker"
    /\ pc' = "sc_outliers"
    /\ outliers' = [kind |-> "dict", items |-> <<>>]
    /\ UNCHANGED <<result, error, raised>>
    /\ UNCHANGED <<daVars, tsVars, ccVars, exVars, appVars>>

\* exact fractions num/den, den > 0
Frac(num, den) == [nan |-> FALSE, num |-> num, den |-> den]

NaNFrac == [nan |-> TRUE, num |-> 0, den |-> 1]

FracSub(a, b) == Frac(a.num * b.den - b.num * a.den, a.den * b.den)

FracAdd(a, b) == Frac(a.num * b.den + b.num * a.den, a.den * b.den)

\* (n/d) * a
FracScale(n, d, a) == Frac(n * a.num, d * a.den)

\* comparisons with NaN are False
FracLess(a, b) == ~a.nan /\ ~b.nan /\ a.num * b.den < b.num * a.den

\* the values of a column in ascending order
RECURSIVE Sorted(_)
Sorted(c) ==
    IF Len(c) = 0 THEN <<>>
    ELSE LET m == CHOOSE i \in 1..Len(c) : \A j \in 1..Len(c) : c[i] <= c[j]
         IN  <<c[m]>> \o Sorted([k \in 1..(Len(c) - 1) |-> IF k < m THEN c[k] ELSE c[k + 1]])

\* Series.quantile(qnum/qden), interpolation='linear': the value at the
\* fractional position (n - 1) * q of the sorted values; NaN when empty
Quantile(c, qnum, qden) ==
    IF Len(c) = 0 THEN NaNFrac
    ELSE LET x    == Sorted(c)
             h    == (Len(c) - 1) * qnum
             lo   == (h \div qden) + 1
             part == h % qden
         IN  IF part = 0 THEN Frac(x[lo], 1)
             ELSE Frac(qden * x[lo] + part * (x[lo + 1] - x[lo]), qden)

OutsideOrOnBounds(x, lower_bound, upper_bound) ==
    ~FracLess(lower_bound, Frac(x, 1)) \/ ~FracLess(Frac(x, 1), upper_bound)

\* (df[col] < lower_bound) | (df[col] > upper_bound)
OutsideBounds(x, lower_bound, upper_bound) ==
    FracLess(Frac(x, 1), lower_bound) \/ FracLess(upper_bound, Frac(x, 1))

IqrCountSpreadQ3(c) ==
    LET Q1 == Quantile(c, 1, 4)
        Q3 == Quantile(c, 3, 4)
        IQR == Q3
        lower_bound == IF Q1.nan THEN NaNFrac ELSE FracSub(Q1, FracScale(3, 2, IQR))
        upper_bound == IF Q1.nan THEN NaNFrac ELSE FracAdd(Q3, FracScale(3, 2, IQR))
    IN  Cardinality({i \in 1..Len(c) : OutsideBounds(c[i], lower_bound, upper_bound)})

\* the iqr branch for one column
IqrCount(c) ==
    LET Q1 == Quantile(c, 1, 4)
        Q3 == Quantile(c, 3, 4)
        IQR == IF Q1.nan THEN NaNFrac ELSE FracSub(Q3, Q1)
        lower_bound == IF Q1.nan THEN NaNFrac ELSE FracSub(Q1, FracScale(3, 2, IQR))
        upper_bound == IF Q1.nan THEN NaNFrac ELSE FracAdd(Q3, FracScale(3, 2, IQR))
    IN  Cardinality({i \in 1..Len(c) : OutsideBounds(c[i], lower_bound, upper_bound)})

\* the threshold of the zscore branch
ZThreshold == 3

ZscoreCountNoStd(c) ==
    LET n == Len(c)
        s == SumOver(c, 1, n)
    IN  Cardinality({i \in 1..n :
            (IF n * c[i] - s < 0 THEN s - n * c[i] ELSE n * c[i] - s) > ZThreshold * n})

\* the zscore branch for one column: mean, std with ddof=1,
\* np.abs((x - mean) / std) > 3
ZscoreCount(c) ==
    LET n == Len(c)
        mean == IF n = 0 THEN NaN ELSE RollingMean(c, n, n)
        std  == IF n = 0 THEN NaN ELSE RollingStd(c, n, n)
    IN  Cardinality({i \in 1..n : AbsGreater(ZScore(c[i], mean, std), ZThreshold)})

\* the dict filled by `for col in numeric_cols`, in column order
RECURSIVE OutlierItems(_, _, _)
OutlierItems(d, cols, m) ==
    IF Len(cols) = 0 THEN <<>>
    ELSE LET c == Col(d, Head(cols)).vals
             this == IF m = "iqr" THEN <<[col |-> Head(cols), count |-> IqrCount(c)]>>
                     ELSE IF m = "zscore"
                          THEN <<[col |-> Head(cols), count |-> ZscoreCount(c)]>>
                     ELSE <<>>
         IN  this \o OutlierItems(d, Tail(cols), m)

\* the body of detect_outliers
DetectOutliers ==
    /\ pc = "sc_outliers"
    /\ outliers' = [kind |-> "dict", items |-> OutlierItems(df, SelectNumber(df), method)]
    /\ pc' = "returned"
    /\ result' = outliers'
    /\ UNCHANGED <<fn, df, error, raised, method>>
    /\ UNCHANGED <<daVars, tsVars, ccVars, exVars, appVars>>

NextOutliers ==
    \/ CallDetectOutliers
    \/ SelectOutlierMethod
    \/ DetectOutliers

SpecOutliers == Init /\ [][NextOutliers]_vars

(***************************************************************************)
(* detect_duplicates(df)                                                   *)
(***************************************************************************)
\* the frame of test_detect_duplicates
DuplicatesTestFrame ==
    DataFrame(4, <<Column("name", "object", <<"Alice", "Bob", "Alice", "Charlie">>),
                   Column("age", "number", <<25, 30, 25, 35>>)>>)

\* frames of a name and an age column, of an age column alone, and of two
\* columns that carry the same name; the frame without rows or columns
DuplicateFrames ==
    UNION {
        {DataFrame(n, <<Column("name", "object", a), Column("age", "number", b)>>) :
            a \in [1..n -> {"Alice", "Bob"}], b \in [1..n -> {25, 30}]}
        \cup {DataFrame(n, <<Column("age", "number", b)>>) : b \in [1..n -> {25, 30}]}
        \cup {DataFrame(n, <<Column("age", "number", b), Column("age", "number", c)>>) :
            b \in [1..n -> {25, 30}], c \in [1..n -> {25, 30}]} :
        n \in 0..MaxDupRows}
    \cup {NoFrame, DuplicatesTestFrame}

\* a caller invokes detect_duplicates
CallDetectDuplicates ==
    /\ pc = "idle"
    /\ \E d \in DuplicateFrames : df' = d
    /\ fn' = "detect_duplicates"
    /\ pc' = "sc_duplicates"
    /\ UNCHANGED <<result, error, raised>>
    /\ UNCHANGED <<daVars, tsVars, scVars, ccVars, exVars, appVars>>

\* the values of row r, in column order
Row(d, r) == [i \in 1..Len(d.columns) |-> d.columns[i].vals[r]]

DuplicatedKeepNone(d) ==
    [r \in 1..d.nrows |-> \E q \in 1..d.nrows : q # r /\ Row(d, q) = Row(d, r)]

\* df.duplicated(): True for a row equal to an earlier row (keep='first')
Duplicated(d) ==
    [r \in 1..d.nrows |-> \E q \in 1..(r - 1) : Row(d, q) = Row(d, r)]

\* df.columns.duplicated(): True for a name seen at an earlier position
ColumnsDuplicated(d) ==
    [i \in 1..Len(d.columns) |->
        \E j \in 1..(i - 1) : d.columns[j].name = d.columns[i].name]

\* .sum() of a boolean mask
SumMask(mask) == Cardinality({i \in 1..Len(mask) : mask[i]})

\* the body of detect_duplicates
DetectDuplicates ==
    /\ pc = "sc_duplicates"
    /\ Return([kind |-> "dict",
               duplicate_rows |-> SumMask(Duplicated(df)),
               duplicate_columns |-> SumMask(ColumnsDuplicated(df))], None)
    /\ UNCHANGED <<daVars, tsVars, scVars, ccVars, exVars, appVars>>

NextDuplicates ==
    \/ CallDetectDuplicates
    \/ DetectDuplicates

SpecDuplicates == Init /\ [][NextDuplicates]_vars

(***************************************************************************)
(* check_data_consistency(df), and the clock pd.Timestamp.now() reads.     *)
(* Column names are sequences of characters here, so that col.lower() and  *)
(* the substring tests act on the letters of the name.  Instants are       *)
(* integers.                                                               *)
(***************************************************************************)
NameAge == <<"a", "g", "e">>
NameAgeUpper == <<"A", "G", "E">>
NamePrice == <<"p", "r", "i", "c", "e">>
NameCount == <<"c", "o", "u", "n", "t">>
NameDiscount == <<"d", "i", "s", "c", "o", "u", "n", "t">>
NameScore == <<"s", "c", "o", "r", "e">>
NameSignup == <<"s", "i", "g", "n", "u", "p">>
NameStage == <<"s", "t", "a", "g", "e">>

\* str.lower() of one character, for the letters of the names above
LowerChar(ch) ==
    CASE ch = "A" -> "a"
      [] ch = "G" -> "g"
      [] ch = "E" -> "e"
      [] OTHER -> ch

\* col.lower()
NameLower(name) == [i \in 1..Len(name) |-> LowerChar(name[i])]

\* sub in s
In(sub, s) ==
    \E i \in 1..(Len(s) - Len(sub) + 1) : SubSeq(s, i, i + Len(sub) - 1) = sub

\* 'age' in col.lower() or 'count' in col.lower() or 'price' in col.lower()
NamesQuantity(col) ==
    \/ In(NameAge, NameLower(col))
    \/ In(NameCount, NameLower(col))
    \/ In(NamePrice, NameLower(col))

\* the frames of test_check_data_consistency and test_check_data_consistency_clean
ConsistencyTestFrame ==
    DataFrame(4, <<Column(NameAge, "number", <<25, -5, 30, 35>>),
                   Column(NamePrice, "number", <<100, 200, -50, 150>>)>>)

ConsistencyCleanFrame ==
    DataFrame(4, <<Column(NameAge, "number", <<25, 30, 35, 40>>),
                   Column(NamePrice, "number", <<100, 200, 150, 175>>)>>)

\* the columns a frame is built of: a name and a dtype
ColumnKinds ==
    {<<NameAgeUpper, "number">>, <<NamePrice, "number">>,
     <<NameDiscount, "number">>, <<NameScore, "number">>,
     <<NameSignup, "datetime">>, <<NameStage, "datetime">>}

\* the values of a column: numbers around 0, or instants
ValuesOf(dtype) == IF dtype = "number" THEN {-5, 0, 25} ELSE {1, 2}

ColumnsOfKind(k, n) == {Column(k[1], k[2], v) : v \in [1..n -> ValuesOf(k[2])]}

\* frames of one column, and of two columns of different names
ConsistencyFrames ==
    UNION {
        UNION {
            {DataFrame(n, <<c1>>) : c1 \in ColumnsOfKind(k1, n)}
            \cup UNION {
                    {DataFrame(n, <<c1, c2>>) :
                        c1 \in ColumnsOfKind(k1, n), c2 \in ColumnsOfKind(k2, n)} :
                    k2 \in ColumnKinds \ {k1}} :
            k1 \in ColumnKinds} :
        n \in 0..MaxCheckRows}
    \cup {NoFrame, ConsistencyTestFrame, ConsistencyCleanFrame}

\* the clock advances
Tick ==
    /\ now < MaxNow
    /\ now' = now + 1
    /\ UNCHANGED <<issues, date_cols, previous>>
    /\ UNCHANGED <<callVars, daVars, tsVars, scVars, exVars, appVars>>

\* a caller invokes check_data_consistency
CallCheckDataConsistency ==
    /\ pc = "idle"
    /\ \E d \in ConsistencyFrames : df' = d
    /\ fn' = "check_data_consistency"
    /\ pc' = "cc_negative"
    /\ issues' = <<>>
    /\ UNCHANGED <<result, error, raised>>
    /\ UNCHANGED <<date_cols, now, previous>>
    /\ UNCHANGED <<daVars, tsVars, scVars, exVars, appVars>>

\* the caller keeps the returned list and calls again with the same dataset
CallCheckDataConsistencyAgain ==
    /\ fn = "check_data_consistency" /\ pc = "returned"
    /\ previous = None
    /\ previous' = result
    /\ pc' = "cc_negative"
    /\ issues' = <<>>
    /\ result' = None
    /\ UNCHANGED <<fn, df, error, raised>>
    /\ UNCHANGED <<date_cols, now>>
    /\ UNCHANGED <<daVars, tsVars, scVars, exVars, appVars>>

\* f"Negative values in {col}: {negatives} rows"
NegativeIssue(col, n) == [rule |-> "Negative values", col |-> col, count |-> n]

\* f"Future dates in {col}: {future_dates} rows"
FutureIssue(col, n) == [rule |-> "Future dates", col |-> col, count |-> n]

NegativesOrZero(c) == Cardinality({r \in 1..Len(c.vals) : c.vals[r] <= 0})

\* (df[col] < 0).sum()
Negatives(c) == Cardinality({r \in 1..Len(c.vals) : c.vals[r] < 0})

\* the loop over the numeric columns
RECURSIVE NegativeLoop(_, _, _)
NegativeLoop(d, cols, acc) ==
    IF cols = <<>> THEN acc
    ELSE LET col == Head(cols)
             negatives == Negatives(Col(d, col))
         IN  NegativeLoop(d, Tail(cols),
                 IF NamesQuantity(col) /\ negatives > 0
                     THEN Append(acc, NegativeIssue(col, negatives))
                     ELSE acc)

\* df.select_dtypes(include=['datetime']).columns
SelectDatetime(d) ==
    LET IsDate(c) == c.dtype = "datetime"
        sel == SelectSeq(d.columns, IsDate)
    IN  [i \in 1..Len(sel) |-> sel[i].name]

\* negative values in the quantity columns, then the datetime columns are selected
CheckNegativeValues ==
    /\ pc = "cc_negative"
    /\ issues' = NegativeLoop(df, SelectNumber(df), issues)
    /\ date_cols' = SelectDatetime(df)
    /\ Goto("cc_future")
    /\ UNCHANGED <<now, previous>>
    /\ UNCHANGED <<daVars, tsVars, scVars, exVars, appVars>>

FutureDatesOrNow(c, t) == Cardinality({r \in 1..Len(c.vals) : c.vals[r] >= t})

\* (df[col] > pd.Timestamp.now()).sum(), t the instant the clock shows
FutureDates(c, t) == Cardinality({r \in 1..Len(c.vals) : c.vals[r] > t})

\* one turn of the loop over the datetime columns: the clock is read once
CheckFutureDates ==
    /\ pc = "cc_future"
    /\ date_cols # <<>>
    /\ LET col == Head(date_cols)
           future_dates == FutureDates(Col(df, col), now)
       IN  issues' = IF future_dates > 0
                         THEN Append(issues, FutureIssue(col, future_dates))
                         ELSE issues
    /\ date_cols' = Tail(date_cols)
    /\ Goto("cc_future")
    /\ UNCHANGED <<now, previous>>
    /\ UNCHANGED <<daVars, tsVars, scVars, exVars, appVars>>

\* return issues
ReturnIssues ==
    /\ pc = "cc_future"
    /\ date_cols = <<>>
    /\ Return([kind |-> "list", items |-> issues], None)
    /\ UNCHANGED <<issues, date_cols, now, previous>>
    /\ UNCHANGED <<daVars, tsVars, scVars, exVars, appVars>>

NextConsistency ==
    \/ CallCheckDataConsistency
    \/ CheckNegativeValues
    \/ CheckFutureDates
    \/ ReturnIssues
    \/ CallCheckDataConsistencyAgain
    \/ Tick

SpecConsistency == Init /\ [][NextConsistency]_vars

(***************************************************************************)
(* explain_anomalies(df, result): result is the dict detect_anomalies      *)
(* returned for df, the list returned is kept in explanations.             *)
(***************************************************************************)
\* frames of one or two numeric columns
ExplainFrames ==
    UNION {
        {DataFrame(n, <<Column(FeatureName(1), "number", a)>>) :
            a \in [1..n -> {0, 1, 3}]}
        \cup {DataFrame(n, <<Column(FeatureName(1), "number", a),
                             Column(FeatureName(2), "number", b)>>) :
            a \in [1..n -> {0, 1, 3}], b \in [1..n -> {0, 3}]} :
        n \in 0..MaxExplainRows}

\* result['numeric_cols']: numeric columns of the frame, each at most once
NumericColsInputs(d) ==
    {c \in SeqsUpTo(Range(SelectNumber(d)), Len(d.columns)) :
        \A i, j \in 1..Len(c) : i # j => c[i] # c[j]}

\* a caller invokes explain_anomalies
CallExplainAnomalies ==
    /\ pc = "idle"
    /\ \E d \in ExplainFrames :
         \E mask \in [1..d.nrows -> BOOLEAN] :
           \E cols \in NumericColsInputs(d) :
             /\ df' = d
             /\ result' = [kind |-> "dict", anomalies |-> mask, numeric_cols |-> cols]
    /\ fn' = "explain_anomalies"
    /\ pc' = "ex_explain"
    /\ UNCHANGED <<error, raised>>
    /\ UNCHANGED <<daVars, tsVars, scVars, ccVars, exVars, appVars>>

\* df[mask][col] and df[~mask][col]: the values of the rows whose flag is `flag`
RECURSIVE BoolIndex(_, _, _)
BoolIndex(vals, mask, flag) ==
    IF Len(vals) = 0 THEN <<>>
    ELSE LET rest == BoolIndex(Tail(vals), Tail(mask), flag)
         IN  IF Head(mask) = flag THEN <<Head(vals)>> \o rest ELSE rest

SeriesMeanEmptyZero(v) ==
    IF Len(v) = 0 THEN Number(0, 0, 1) ELSE RollingMean(v, Len(v), Len(v))

\* Series.mean(): NaN for an empty series
SeriesMean(v) == RollingMean(v, Len(v), Len(v))

\* Series.std() (ddof=1), as its square: NaN for fewer than two values
SeriesStd(v) == RollingStd(v, Len(v), Len(v))

\* abs(anomaly_mean - normal_mean)
AbsDiff(a, b) ==
    IF a.nan \/ b.nan THEN NaN
    ELSE LET d == a.num * b.den - b.num * a.den
         IN  Number(Sign(d) * Sign(d), IF d < 0 THEN -d ELSE d, a.den * b.den)

ExceedsOrEquals(diff, std) ==
    /\ ~diff.nan /\ ~std.nan
    /\ diff.num * diff.num * std.den >= std.num * diff.den * diff.den

\* diff > std, std given as its square; a comparison with NaN is False
Exceeds(diff, std) ==
    /\ ~diff.nan /\ ~std.nan
    /\ diff.num * diff.num * std.den > std.num * diff.den * diff.den

\* anomaly_mean > normal_mean
MeanGreater(a, b) == ~a.nan /\ ~b.nan /\ a.num * b.den > b.num * a.den

\* f"{diff:.2f}": the hundredths nearest to diff, ties to the even one
Hundredths(diff) ==
    LET q == (100 * diff.num) \div diff.den
        rest == 100 * diff.num - q * diff.den
    IN  IF 2 * rest > diff.den THEN q + 1
        ELSE IF 2 * rest = diff.den THEN q + (q % 2)
        ELSE q

\* f"{col}: Anomalies have {direction} values (diff: {diff:.2f})"
Explanation(col, direction, diff) ==
    [col |-> col, direction |-> direction, diff |-> Hundredths(diff)]

\* the loop over result['numeric_cols']
RECURSIVE ExplainLoop(_, _, _, _)
ExplainLoop(d, mask, cols, acc) ==
    IF cols = <<>> THEN acc
    ELSE LET col == Head(cols)
             anomaly_mean == SeriesMean(BoolIndex(Col(d, col).vals, mask, TRUE))
             normal_mean == SeriesMean(BoolIndex(Col(d, col).vals, mask, FALSE))
             diff == AbsDiff(anomaly_mean, normal_mean)
             std == SeriesStd(BoolIndex(Col(d, col).vals, mask, FALSE))
             direction == IF MeanGreater(anomaly_mean, normal_mean)
                              THEN "higher" ELSE "lower"
         IN  ExplainLoop(d, mask, Tail(cols),
                 IF Exceeds(diff, std)
                     THEN Append(acc, Explanation(col, direction, diff))
                     ELSE acc)

\* the body of explain_anomalies
ExplainAnomalies ==
    /\ pc = "ex_explain"
    /\ explanations' = ExplainLoop(df, result.anomalies, result.numeric_cols, <<>>)
    /\ Goto("returned")
    /\ UNCHANGED <<daVars, tsVars, scVars, ccVars, appVars>>

NextExplain ==
    \/ CallExplainAnomalies
    \/ ExplainAnomalies

SpecExplain == Init /\ [][NextExplain]_vars

(***************************************************************************)
(* Engine calls running at the same time.  Every call has its own          *)
(* arguments and its own local names (the loop over the columns and the    *)
(* list or dict it fills); a step of one call is one turn of its loop.     *)
(* The only thing outside a call that a call reads is the clock.           *)
(***************************************************************************)
\* a call that has been made: function, dataset, second argument
EngineCall(f, d, arg) == [fn |-> f, df |-> d, arg |-> arg]

ConcurrentInputs ==
    {EngineCall("detect_outliers",
                DataFrame(6, <<Column("value", "number", IqrTestColumn),
                               Column("amount", "number", Reverse(IqrTestColumn))>>), m) :
        m \in {"iqr", "zscore"}}
    \cup {EngineCall("detect_duplicates", DuplicatesTestFrame, None)}
    \cup {EngineCall("check_data_consistency", d, None) :
            d \in {ConsistencyTestFrame,
                   DataFrame(1, <<Column(NameStage, "datetime", <<1>>),
                                  Column(NameAgeUpper, "number", <<-5>>)>>)}}
    \cup {EngineCall("explain_anomalies",
                     DataFrame(3, <<Column(FeatureName(1), "number", <<0, 0, 3>>),
                                    Column(FeatureName(2), "number", <<0, 3, 0>>)>>),
                     [kind |-> "dict", anomalies |-> <<FALSE, FALSE, TRUE>>,
                      numeric_cols |-> <<FeatureName(1), FeatureName(2)>>])}

\* the turns of the loops of a call, in the order the body runs them
LoopTurns(call) ==
    LET Turn(kind, cols) == [i \in 1..Len(cols) |-> <<kind, cols[i]>>]
    IN  CASE call.fn = "detect_outliers" -> Turn("outliers", SelectNumber(call.df))
          [] call.fn = "detect_duplicates" -> <<<<"rows", "">>, <<"columns", "">>>>
          [] call.fn = "check_data_consistency" ->
                Turn("negative", SelectNumber(call.df))
                    \o Turn("future", SelectDatetime(call.df))
          [] call.fn = "explain_anomalies" -> Turn("explain", call.arg.numeric_cols)

\* the calls are made: each starts with an empty list or dict of its own
StartCalls ==
    /\ pc = "idle"
    /\ \E inputs \in [1..MaxCalls -> ConcurrentInputs] :
         calls' = [c \in 1..MaxCalls |->
                      [fn |-> inputs[c].fn, df |-> inputs[c].df, arg |-> inputs[c].arg,
                       pc |-> "loop", todo |-> LoopTurns(inputs[c]),
                       acc |-> <<>>, result |-> None]]
    /\ fn' = "engine calls"
    /\ pc' = "running"
    /\ UNCHANGED <<df, result, error, raised>>
    /\ UNCHANGED <<engineVars, gVars, uiVars, awsVars>>

LocalShared(cs, c) == cs[1].acc

\* outliers = {} / duplicates = {} / issues = [] / explanations = []:
\* the name is local to call c
Local(cs, c) == cs[c].acc

\* one turn of a loop of a call, on the call's own dataset
TurnResult(call, turn, acc, t) ==
    CASE turn[1] = "outliers" -> acc \o OutlierItems(call.df, <<turn[2]>>, call.arg)
      [] turn[1] = "rows" ->
            Append(acc, [key |-> "duplicate_rows", value |-> SumMask(Duplicated(call.df))])
      [] turn[1] = "columns" ->
            Append(acc, [key |-> "duplicate_columns",
                         value |-> SumMask(ColumnsDuplicated(call.df))])
      [] turn[1] = "negative" -> NegativeLoop(call.df, <<turn[2]>>, acc)
      [] turn[1] = "future" ->
            LET future_dates == FutureDates(Col(call.df, turn[2]), t)
            IN  IF future_dates > 0
                    THEN Append(acc, FutureIssue(turn[2], future_dates))
                    ELSE acc
      [] turn[1] = "explain" ->
            ExplainLoop(call.df, call.arg.anomalies, <<turn[2]>>, acc)

\* call c runs one turn of its loop
Iterate(c) ==
    /\ pc = "running"
    /\ calls[c].pc = "loop"
    /\ calls[c].todo # <<>>
    /\ calls' = [calls EXCEPT
                    ![c].acc = TurnResult(calls[c], Head(calls[c].todo),
                                          Local(calls, c), now),
                    ![c].todo = Tail(calls[c].todo)]
    /\ UNCHANGED callVars
    /\ UNCHANGED <<engineVars, gVars, uiVars, awsVars>>

\* call c returns what it has filled
Finish(c) ==
    /\ pc = "running"
    /\ calls[c].pc = "loop"
    /\ calls[c].todo = <<>>
    /\ calls' = [calls EXCEPT ![c].pc = "returned", ![c].result = Local(calls, c)]
    /\ UNCHANGED callVars
    /\ UNCHANGED <<engineVars, gVars, uiVars, awsVars>>

NextConcurrent ==
    \/ StartCalls
    \/ \E c \in 1..MaxCalls : Iterate(c)
    \/ \E c \in 1..MaxCalls : Finish(c)
    \/ Tick

SpecConcurrent == Init /\ [][NextConcurrent]_vars

(***************************************************************************)
(* data_flow_mapper.detect_glitches(G): G a networkx DiGraph, kept as its  *)
(* node set and its set of directed edges (a self-loop is an edge (n, n)). *)
(***************************************************************************)
Nodes == {"A", "B", "C", "D"}

DiGraph(nodes, edges) == [nodes |-> nodes, edges |-> edges]

\* the graphs of test_detect_glitches, test_detect_glitches_no_issues and
\* test_graph_with_isolated_nodes
CycleTestGraph == DiGraph({"A", "B", "C"}, {<<"A", "B">>, <<"B", "C">>, <<"C", "A">>})

ChainTestGraph == DiGraph(Nodes, {<<"A", "B">>, <<"B", "C">>, <<"C", "D">>})

IsolatedTestGraph == DiGraph(Nodes, {<<"A", "B">>, <<"B", "C">>})

\* every graph on some of the nodes with at most MaxEdges edges
GraphInputs ==
    UNION {{DiGraph(ns, es) :
               es \in {e \in SUBSET (ns \X ns) : Cardinality(e) <= MaxEdges}} :
           ns \in SUBSET Nodes}

\* a caller invokes detect_glitches
CallDetectGlitches ==
    /\ pc = "idle"
    /\ \E g \in GraphInputs : G' = g
    /\ fn' = "detect_glitches"
    /\ pc' = "dfm_glitches"
    /\ UNCHANGED <<df, result, error, raised>>
    /\ UNCHANGED <<engineVars, coVars, uiVars, awsVars>>

\* nx.is_directed_acyclic_graph: the topological sort removes, generation by
\* generation, the nodes without an incoming edge; it fails when nodes remain
RECURSIVE Unsorted(_, _)
Unsorted(nodes, edges) ==
    LET zero_indegree == {n \in nodes : ~\E e \in edges : e[2] = n}
    IN  IF zero_indegree = {} THEN nodes
        ELSE Unsorted(nodes \ zero_indegree,
                      {e \in edges : e[1] \notin zero_indegree})

IsDirectedAcyclicGraph(g) == Unsorted(g.nodes, g.edges) = {}

OutDegree(g, n) == Cardinality({e \in g.edges : e[1] = n})

\* G.degree(): incoming plus outgoing edges, a self-loop counts twice
Degree(g, n) ==
    Cardinality({e \in g.edges : e[1] = n}) + Cardinality({e \in g.edges : e[2] = n})

\* nx.isolates(G): the nodes of degree 0
Isolates(g) == {n \in g.nodes : Degree(g, n) = 0}

BottleneckDegree == 3

\* one entry of the list; nodes is the list the message prints
Glitch(kind, nodes) == [glitch |-> kind, nodes |-> nodes]

\* the three checks, each appending at most one glitch
Glitches(g) ==
    LET bottlenecks == {n \in g.nodes : Degree(g, n) > BottleneckDegree}
    IN  (IF ~IsDirectedAcyclicGraph(g) THEN <<Glitch("Cycle detected", {})>> ELSE <<>>)
        \o (IF Isolates(g) # {} THEN <<Glitch("Isolated nodes", Isolates(g))>> ELSE <<>>)
        \o (IF bottlenecks # {}
                THEN <<Glitch("Potential bottlenecks", bottlenecks)>> ELSE <<>>)

\* the body of detect_glitches
DetectGlitches ==
    /\ pc = "dfm_glitches"
    /\ Return([kind |-> "list", items |-> Glitches(G)], None)
    /\ UNCHANGED <<engineVars, appVars>>

NextGlitches ==
    \/ CallDetectGlitches
    \/ DetectGlitches

SpecGlitches == Init /\ [][NextGlitches]_vars

(***************************************************************************)
(* challenge_mode.run_challenge_mode(): one action is one run of the       *)
(* script, started by opening the page or by pressing a button the last    *)
(* run rendered.  st.session_state is a function from the keys set so far  *)
(* to their values; time.time() reads the clock.  The score, the list of   *)
(* completed challenges and the leaderboard are left out.                  *)
(***************************************************************************)
\* len(CHALLENGES)
NumChallenges == 5

Float(t) == [kind |-> "float", v |-> t]

\* st.session_state[k] = v
SetItem(ss, k, v) == [x \in DOMAIN ss \cup {k} |-> IF x = k THEN v ELSE ss[x]]

\* if k not in st.session_state: st.session_state[k] = v
SetDefault(ss, k, v) == IF k \in DOMAIN ss THEN ss ELSE SetItem(ss, k, v)

\* "# Initialize session state"
InitializeSessionState(ss, t) ==
    SetDefault(SetDefault(SetDefault(SetDefault(SetDefault(ss,
        "current_level", 1),
        "score", 0),
        "completed_challenges", <<>>),
        "hints_used", 0),
        "start_time", Float(t))

\* CHALLENGES[level]['points']
Points(level) ==
    CASE level = 1 -> 10
      [] level = 2 -> 20
      [] level = 3 -> 30
      [] level = 4 -> 25
      [] level = 5 -> 35

Max(a, b) == IF a > b THEN a ELSE b

\* calculate_score(time_taken, hints_used, difficulty)
CalculateScore(time_taken, hints_used, difficulty) ==
    LET time_penalty == Max(0, time_taken - 300) \div 10
        hint_penalty == hints_used * 5
    IN  Max(10, Points(difficulty) - time_penalty - hint_penalty)

\* what a run leaves: the session, the page it showed, the exception that ended it
Run(ss, page, exc) == [session_state |-> ss, shown |-> page, raised |-> exc]

\* the challenge page: level, the operand and the value of the timer, and the
\* st.info / st.success / st.error the pressed button produced
ChallengePage(level, start_time, elapsed_time, message) ==
    [kind |-> "challenge", level |-> level, start_time |-> start_time,
     elapsed_time |-> elapsed_time, message |-> message]

\* the operand st.session_state.start_time of the timer
StartTime(ss, t) == ss["start_time"]

\* the script from "# Main challenge area" on, with the button `event`
\* pressed ("" for none) at instant t
MainChallengeArea(ss, event, t) ==
    LET level == ss["current_level"]
        start_time == StartTime(ss, t)
    IN  IF level > NumChallenges
            THEN Run(ss, [kind |-> "completed"], None)
        ELSE IF start_time = None
            THEN Run(ss, ChallengePage(level, None, None, ""), Exception("TypeError"))
        ELSE LET elapsed_time == t - start_time.v
                 Page(message) ==
                     ChallengePage(level, start_time, Float(elapsed_time), message)
             IN  CASE event = "Get Hint" ->
                        Run(SetItem(ss, "hints_used", ss["hints_used"] + 1),
                            Page("Hint"), None)
                   [] event = "Submit Answer: correct" ->
                        Run(SetItem(SetItem(SetItem(SetItem(SetItem(ss,
                                "score", ss["score"]
                                    + CalculateScore(elapsed_time, ss["hints_used"], level)),
                                "completed_challenges",
                                    Append(ss["completed_challenges"], level)),
                                "current_level", level + 1),
                                "start_time", None),
                                "hints_used", 0),
                            Page("Correct"), None)
                   [] event = "Submit Answer: wrong" -> Run(ss, Page("Not quite right"), None)
                   [] OTHER -> Run(ss, Page(""), None)

\* one run of run_challenge_mode; Reset Progress resets level, score and the
\* completed challenges and reruns
RunChallengeMode(ss, event, t) ==
    LET init == InitializeSessionState(ss, t)
    IN  IF event = "Reset Progress"
            THEN MainChallengeArea(
                     SetItem(SetItem(SetItem(init,
                         "current_level", 1),
                         "score", 0),
                         "completed_challenges", <<>>), "", t)
            ELSE MainChallengeArea(init, event, t)

ScriptRun(event) ==
    LET run == RunChallengeMode(session_state, event, now)
    IN  /\ session_state' = run.session_state
        /\ shown' = run.shown
        /\ raised' = run.raised
        /\ fn' = "run_challenge_mode"
        /\ pc' = IF run.raised = None THEN "returned" ELSE "raised"
        /\ UNCHANGED <<df, result, error>>
        /\ UNCHANGED <<modules, pressed>>
        /\ UNCHANGED <<engineVars, coVars, gVars, awsVars>>

\* the last run rendered the buttons below the timer
ChallengeRendered ==
    fn = "run_challenge_mode" /\ raised = None /\ shown.kind = "challenge"

\* the user opens the page, or the page reruns without a button
OpenChallengeMode ==
    /\ fn \in {"", "run_challenge_mode"}
    /\ ScriptRun("")

GetHint ==
    /\ ChallengeRendered
    /\ session_state["hints_used"] < MaxHints
    /\ ScriptRun("Get Hint")

SubmitCorrectAnswer ==
    /\ ChallengeRendered
    /\ ScriptRun("Submit Answer: correct")

SubmitWrongAnswer ==
    /\ ChallengeRendered
    /\ ScriptRun("Submit Answer: wrong")

\* the sidebar is rendered by every run, before the timer
ResetProgress ==
    /\ fn = "run_challenge_mode"
    /\ ScriptRun("Reset Progress")

NextChallenge ==
    \/ OpenChallengeMode
    \/ GetHint
    \/ SubmitCorrectAnswer
    \/ SubmitWrongAnswer
    \/ ResetProgress
    \/ Tick

SpecChallenge == Init /\ [][NextChallenge]_vars

(***************************************************************************)
(* cloud_integration.SimulatedAWS: self.buckets maps a bucket name to the  *)
(* list of its keys, self.data maps a key to the data stored under it.     *)
(***************************************************************************)
BucketNames == {"raw", "clean"}

Keys == {"a.csv", "b.csv"}

Payloads == {[kind |-> "data", v |-> 1], [kind |-> "data", v |-> 2]}

Request(bucket_name, key) == [bucket_name |-> bucket_name, key |-> key]

\* self.buckets[bucket_name] = []
CreateBucketIn(bs, bucket_name) == SetItem(bs, bucket_name, <<>>)

\* a call of the object's method leaves the datasets and the session alone
AwsCall(name, bucket_name, key, res) ==
    /\ fn' = name
    /\ pc' = "returned"
    /\ request' = Request(bucket_name, key)
    /\ result' = res
    /\ UNCHANGED <<df, error, raised>>
    /\ UNCHANGED <<engineVars, coVars, gVars, uiVars>>

\* create_bucket(bucket_name)
CreateBucket ==
    \E b \in BucketNames :
        /\ buckets' = CreateBucketIn(buckets, b)
        /\ AwsCall("create_bucket", b, "", Str(<<"Bucket", b, "created">>))
        /\ UNCHANGED <<data, uploads>>

\* upload_data(bucket_name, key, data)
UploadData ==
    /\ Len(uploads) < MaxUploads
    /\ \E b \in BucketNames, k \in Keys, d \in Payloads :
        LET created == IF b \notin DOMAIN buckets
                           THEN CreateBucketIn(buckets, b) ELSE buckets
        IN  /\ data' = SetItem(data, k, d)
            /\ buckets' = SetItem(created, b, Append(created[b], k))
            /\ uploads' = Append(uploads, [bucket_name |-> b, key |-> k, data |-> d])
            /\ AwsCall("upload_data", b, k, Str(<<"Data", "uploaded", "to", b, k>>))

\* self.data.get(key, None)
DataGet(ds, key) == IF key \in DOMAIN ds THEN ds[key] ELSE None

\* self.buckets.get(bucket_name, [])
BucketsGet(bs, bucket_name) == IF bucket_name \in DOMAIN bs THEN bs[bucket_name] ELSE <<>>

\* download_data(bucket_name, key)
DownloadData ==
    \E b \in BucketNames, k \in Keys :
        /\ AwsCall("download_data", b, k, DataGet(data, k))
        /\ UNCHANGED <<buckets, data, uploads>>

\* list_objects(bucket_name)
ListObjects ==
    \E b \in BucketNames :
        /\ AwsCall("list_objects", b, "", [kind |-> "list", items |-> BucketsGet(buckets, b)])
        /\ UNCHANGED <<buckets, data, uploads>>

NextAWS ==
    \/ CreateBucket
    \/ UploadData
    \/ DownloadData
    \/ ListObjects

SpecAWS == Init /\ [][NextAWS]_vars

(***************************************************************************)
(* dashboard.main(): one action is one run of the script in the user's     *)
(* session, for the page chosen in the sidebar.  The page modules are      *)
(* imported by the first run that needs them, once per process; what a     *)
(* module does at import is part of that run.                              *)
(***************************************************************************)
\* the files a user uploads in the sanity checker
UploadedFiles ==
    {DuplicatesTestFrame, DataFrame(6, <<Column("value", "number", IqrTestColumn)>>)}

SanityToAnomaly == "Sanity Checker -> Anomaly Detection"

\* "# Data sharing status": one line per key present in st.session_state
DataSharingStatus(ss) ==
    (IF "shared_data" \in DOMAIN ss THEN <<SanityToAnomaly>> ELSE <<>>)
    \o (IF "log_data" \in DOMAIN ss THEN <<"API Explorer -> Sanity Checker">> ELSE <<>>)
    \o (IF "anomaly_nodes" \in DOMAIN ss
            THEN <<"Anomaly Detection -> Data Flow Mapper">> ELSE <<>>)
    \o (IF "cloud_data" \in DOMAIN ss
            THEN <<"Cloud Integration -> Sanity Checker">> ELSE <<>>)

\* a run of main() ends having shown `page`
PageRun(page) ==
    /\ fn' = "main"
    /\ pc' = "returned"
    /\ shown' = page
    /\ UNCHANGED <<df, result, error, raised>>
    /\ UNCHANGED <<engineVars, coVars, gVars, awsVars>>

\* page == "Dashboard"
OpenDashboard ==
    /\ PageRun([kind |-> "Dashboard", shared_data |-> DataSharingStatus(session_state)])
    /\ UNCHANGED <<session_state, modules, pressed>>

\* from app.sanity_checker import run_sanity_checker: the first import runs
\* the module, whose last statements put shared_data and schema_data into
\* st.session_state when they are not there
ImportSanityChecker(ss, mods) ==
    IF "app.sanity_checker" \in mods THEN ss
    ELSE SetDefault(SetDefault(ss, "shared_data", None), "schema_data", None)

\* page == "Sanity Checker", with a file in the uploader or without
OpenSanityChecker ==
    /\ \E uploaded_file \in UploadedFiles \cup {None} :
          PageRun([kind |-> "Sanity Checker", uploaded_file |-> uploaded_file])
    /\ session_state' = ImportSanityChecker(session_state, modules)
    /\ modules' = modules \cup {"app.sanity_checker"}
    /\ UNCHANGED pressed

\* the last run rendered the Integration buttons: a file is uploaded
IntegrationRendered ==
    fn = "main" /\ shown.kind = "Sanity Checker" /\ shown.uploaded_file # None

\* st.button("Send to Anomaly Detection")
SendToAnomalyDetection ==
    /\ IntegrationRendered
    /\ session_state' = SetItem(session_state, "shared_data", shown.uploaded_file)
    /\ pressed' = TRUE
    /\ PageRun(shown)
    /\ UNCHANGED modules

\* st.button("Send to Data Flow Mapper")
SendToDataFlowMapper ==
    /\ IntegrationRendered
    /\ session_state' = SetItem(session_state, "schema_data",
                                [kind |-> "dict", columns |-> Len(shown.uploaded_file.columns)])
    /\ PageRun(shown)
    /\ UNCHANGED <<modules, pressed>>

\* page == "Anomaly Detection" with the data source "Use Shared Data"
OpenAnomalyDetection ==
    /\ PageRun([kind |-> "Anomaly Detection",
                df |-> DataGet(session_state, "shared_data")])
    /\ modules' = modules \cup {"app.anomaly_detection"}
    /\ UNCHANGED <<session_state, pressed>>

\* another module shares its data: the API explorer its logs, the anomaly
\* detection its anomaly nodes, the cloud integration its cloud data
ShareFromOtherModule ==
    /\ \E k \in {"log_data", "anomaly_nodes", "cloud_data"} :
          session_state' = SetItem(session_state, k, [kind |-> "frame"])
    /\ PageRun([kind |-> "Other"])
    /\ UNCHANGED <<modules, pressed>>

\* a new browser session of the same server process
NewSession ==
    /\ fn = "main"
    /\ session_state' = <<>>
    /\ pressed' = FALSE
    /\ PageRun(None)
    /\ UNCHANGED modules

NextDashboard ==
    \/ OpenDashboard
    \/ OpenSanityChecker
    \/ SendToAnomalyDetection
    \/ SendToDataFlowMapper
    \/ OpenAnomalyDetection
    \/ ShareFromOtherModule
    \/ NewSession

SpecDashboard == Init /\ [][NextDashboard]_vars

Terminated == pc \in {"returned", "raised"}

\* the error of the pair is a message naming `word`
ErrorNames(word) == error # None /\ ContainsLower(error, word)

Count(mask) == Cardinality({i \in 1..Len(mask) : mask[i]})

(***************************************************************************)
(* C1. For every dataset with at least one numeric column and each of the  *)
(* three supported algorithms, detect_anomalies returns a result with no   *)
(* error that holds exactly one label per input row, each normal or        *)
(* anomalous, so that at most as many rows are anomalous as there are rows.*)
(* Stated as claimed, and only for the inputs every reading of the claim   *)
(* covers: two rows or more and the default contamination 0.1.  The code   *)
(* calls predict on a model it never fitted.                               *)
(***************************************************************************)
C1_OneLabelPerRow ==
    (/\ fn = "detect_anomalies" /\ Terminated
     /\ Len(SelectNumber(df)) >= 1
     /\ df.nrows >= 2 /\ contamination = 10
     /\ algorithm \in Algorithms)
    => /\ pc = "returned"
       /\ error = None
       /\ result # None
       /\ Len(result.anomalies) = df.nrows
       /\ \A i \in 1..df.nrows : result.anomalies[i] \in BOOLEAN
       /\ Count(result.anomalies) <= df.nrows

(***************************************************************************)
(* C2. For every dataset with zero numeric columns, detect_anomalies       *)
(* returns no result (None) together with an error whose message mentions  *)
(* 'numeric', for every algorithm name and contamination value, and before *)
(* any scaling or model construction.                                      *)
(***************************************************************************)
C2_NoNumericFails ==
    (fn = "detect_anomalies" /\ Len(SelectNumber(df)) = 0)
    => /\ X_scaled = None
       /\ model = NoModel
       /\ raised = None
       /\ pc \in {"da_select", "returned"}
       /\ pc = "returned" => (result = None /\ ErrorNames("numeric"))

C2_Witness ==
    /\ fn = "detect_anomalies" /\ pc = "returned"
    /\ Len(df.columns) = MaxCols /\ Len(SelectNumber(df)) = 0 /\ df.nrows > 0
    /\ algorithm = "KMeans" /\ contamination = 60
    /\ result = None /\ ErrorNames("numeric")

(***************************************************************************)
(* C3. Every call of detect_anomalies or detect_time_series_anomalies ends *)
(* in exactly one of two outcomes: a complete result with no error, or no  *)
(* result with exactly one error; no call ends by any other route, also    *)
(* for an algorithm name that is none of the three supported ones.         *)
(* Stated as claimed, for datasets of two rows or more and the default     *)
(* contamination; an exception leaving the function is a third route.      *)
(***************************************************************************)
C3_ResultOrTypedError ==
    (/\ fn \in {"detect_anomalies", "detect_time_series_anomalies"}
     /\ Terminated
     /\ fn = "detect_anomalies" => (df.nrows >= 2 /\ contamination = 10))
    => /\ pc = "returned"
       /\ raised = None
       /\ \/ (result # None /\ error = None)
          \/ (result = None /\ error # None)

(***************************************************************************)
(* C4. detect_anomalies validates contamination itself: for every value    *)
(* outside the open interval (0, 0.5), 0 and 0.5 included, the call fails  *)
(* and returns no result.  Stated as claimed in its weaker half, that no   *)
(* result comes back, for datasets with a numeric column and two rows or   *)
(* more; the code never looks at the value, and the Local Outlier Factor   *)
(* takes 0.5.                                                              *)
(***************************************************************************)
C4_ContaminationValidated ==
    (/\ fn = "detect_anomalies" /\ Terminated
     /\ Len(SelectNumber(df)) >= 1 /\ df.nrows >= 2
     /\ ~(0 < contamination /\ contamination < 50))
    => result = None

(***************************************************************************)
(* C5. In detect_time_series_anomalies, for every dataset, window size w   *)
(* and threshold, the rows at positions 0 .. w-2 of the time-sorted        *)
(* sequence (here 1 .. w-1), those without a full trailing window, are     *)
(* reported as not anomalous.                                              *)
(***************************************************************************)
C5_NoFlagBeforeFullWindow ==
    (fn = "detect_time_series_anomalies" /\ pc = "returned" /\ result # None)
    => \A i \in 1..Len(result.anomalies) :
           i <= window - 1 => result.anomalies[i] = FALSE

\* the defaults on the long series given in reverse order: the spike is the
\* first row in time, inside the first window - 1 rows, and is not flagged
C5_Witness ==
    /\ fn = "detect_time_series_anomalies" /\ pc = "returned" /\ result # None
    /\ window = DefaultWindow /\ threshold = DefaultThreshold
    /\ Len(df_ts.rows) >= window
    /\ df_ts.rows[1].value = SpikeValue
    /\ df_ts.rows[1].index = SpikeRows
    /\ \A i \in 1..(window - 1) : result.anomalies[i] = FALSE

(***************************************************************************)
(* C6. detect_time_series_anomalies returns no result and the              *)
(* column-not-found error whenever the time column or the value column is  *)
(* not a column of the dataset, before sorting or computing any rolling    *)
(* statistic.                                                              *)
(***************************************************************************)
C6_ColumnNotFound ==
    (/\ fn = "detect_time_series_anomalies"
     /\ (time_col \notin Columns(df) \/ value_col \notin Columns(df)))
    => /\ df_ts = None
       /\ raised = None
       /\ pc \in {"ts_check", "returned"}
       /\ pc = "returned" => (result = None /\ error = ColumnNotFoundMessage)

\* the value column is missing from a dataset that has the time column
C6_Witness ==
    /\ fn = "detect_time_series_anomalies" /\ pc = "returned"
    /\ time_col \in Columns(df) /\ value_col \notin Columns(df)
    /\ df.nrows = MaxSeriesRows
    /\ result = None /\ error = ColumnNotFoundMessage /\ df_ts = None

(***************************************************************************)
(* C7. detect_time_series_anomalies rejects every window size smaller than *)
(* 2 or larger than the number of rows: it fails with an invalid-window    *)
(* error and returns no result.  Stated as claimed in its weaker half,     *)
(* that no result comes back, for datasets whose columns are present; the  *)
(* code never looks at the window.  (Shown on datasets of two rows or more *)
(* with the default threshold.)                                            *)
(***************************************************************************)
C7_WindowValidated ==
    (/\ fn = "detect_time_series_anomalies" /\ Terminated
     /\ time_col \in Columns(df) /\ value_col \in Columns(df)
     /\ df.nrows >= 2 /\ threshold = DefaultThreshold
     /\ (window < 2 \/ window > df.nrows))
    => result = None

(***************************************************************************)
(* C8. In detect_time_series_anomalies a row at sorted position i >= w-1   *)
(* (here i >= w) is flagged anomalous exactly when                         *)
(*     |value_i - mean| > threshold * std,                                 *)
(* mean and sample std taken over the w values at sorted positions         *)
(* i-w+1 .. i, the current row included (w >= 2, where the sample std is   *)
(* defined); and a single large spike in an otherwise smooth series is     *)
(* flagged with the defaults window 10 and threshold 2.                    *)
(***************************************************************************)
\* w * (value_j - mean) for the window of w values ending at row i
C8_Deviation(v, i, w, j) == w * v[j] - SumOver(v, i - w + 1, i)

\* |value_i - mean| > th * std, as  w^2 * th^2 * var  against  w^2 * dev_i^2,
\* var = sum of squared deviations / (w - 1)
C8_Exceeds(v, i, w, th) ==
    LET dev == [j \in (i - w + 1)..i |-> C8_Deviation(v, i, w, j)]
        sumsq == SumOver([j \in (i - w + 1)..i |-> dev[j] * dev[j]], i - w + 1, i)
    IN  IF th < 0 THEN sumsq > 0
        ELSE dev[i] * dev[i] * (w - 1) > th * th * sumsq

C8_RollingZScoreRule ==
    (fn = "detect_time_series_anomalies" /\ pc = "returned" /\ result # None
     /\ window >= 2)
    => LET v == Values(df_ts.rows)
       IN  /\ \A i \in window..Len(v) :
                 result.anomalies[i] = C8_Exceeds(v, i, window, threshold)
           /\ (df \in SpikeFrames /\ window = DefaultWindow
               /\ threshold = DefaultThreshold)
              => \A i \in window..Len(v) :
                     v[i] = SpikeValue => result.anomalies[i]

\* the defaults flag the spike of the long series, and nothing else
C8_Witness ==
    /\ fn = "detect_time_series_anomalies" /\ pc = "returned" /\ result # None
    /\ df \in SpikeFrames
    /\ window = DefaultWindow /\ threshold = DefaultThreshold
    /\ \E i \in window..Len(result.anomalies) :
          /\ df_ts.rows[i].value = SpikeValue
          /\ result.anomalies[i]
          /\ \A j \in 1..Len(result.anomalies) : j # i => ~result.anomalies[j]

(***************************************************************************)
(* C9. detect_time_series_anomalies orders the rows ascending by the time  *)
(* column with a stable sort: any two rows with equal time values keep     *)
(* their original relative order.  Stated as claimed; sort_values is       *)
(* called with its default kind, quicksort, which gives no such guarantee. *)
(* (Shown on calls with a window of 2 or more and the default threshold.)  *)
(***************************************************************************)
C9_StableSort ==
    (/\ fn = "detect_time_series_anomalies" /\ df_ts # None /\ df_ts.sorted
     /\ window >= 2 /\ threshold = DefaultThreshold)
    => \A i, j \in 1..Len(df_ts.rows) :
           (i < j /\ df_ts.rows[i].time = df_ts.rows[j].time)
           => df_ts.rows[i].index < df_ts.rows[j].index

(***************************************************************************)
(* C10. With method 'iqr', detect_outliers reports for each numeric column *)
(* the number of values strictly below Q1 - 1.5*IQR or strictly above      *)
(* Q3 + 1.5*IQR, Q1 and Q3 the 25th and 75th percentiles (linear           *)
(* interpolation) and IQR = Q3 - Q1; values equal to a bound are not       *)
(* counted, and for the values [1,2,3,4,5,100] the count is exactly 1.     *)
(***************************************************************************)
\* the k-th smallest value of c, by counting
C10_Smallest(c, k) ==
    CHOOSE x \in Range(c) :
        /\ Cardinality({i \in 1..Len(c) : c[i] < x}) < k
        /\ Cardinality({i \in 1..Len(c) : c[i] <= x}) >= k

\* 100 times the p-th percentile of c: between the order statistics around
\* the rank (n - 1) * p / 100, in proportion to the rank's fraction
C10_Percentile100(c, p) ==
    LET rank == (Len(c) - 1) * p
        k == (rank \div 100) + 1
        f == rank % 100
    IN  IF f = 0 THEN 100 * C10_Smallest(c, k)
        ELSE (100 - f) * C10_Smallest(c, k) + f * C10_Smallest(c, k + 1)

\* values strictly outside [Q1 - 1.5 IQR, Q3 + 1.5 IQR], all scaled by 200
C10_Expected(c) ==
    IF Len(c) = 0 THEN 0
    ELSE LET q1 == C10_Percentile100(c, 25)
             q3 == C10_Percentile100(c, 75)
         IN  Cardinality({i \in 1..Len(c) :
                 \/ 200 * c[i] < 2 * q1 - 3 * (q3 - q1)
                 \/ 200 * c[i] > 2 * q3 + 3 * (q3 - q1)})

C10_IqrCount ==
    (fn = "detect_outliers" /\ pc = "returned" /\ method = "iqr")
    => LET cols == SelectNumber(df)
       IN  /\ Len(result.items) = Len(cols)
           /\ \A k \in 1..Len(cols) :
                 /\ result.items[k].col = cols[k]
                 /\ result.items[k].count = C10_Expected(Col(df, cols[k]).vals)
                 /\ Col(df, cols[k]).vals = IqrTestColumn
                        => result.items[k].count = 1
                 /\ Col(df, cols[k]).vals = BoundaryColumn
                        => result.items[k].count = 0

\* the test's column, after a text column that is left out: one outlier
C10_Witness ==
    /\ fn = "detect_outliers" /\ pc = "returned" /\ method = "iqr"
    /\ Len(df.columns) = 2 /\ df.columns[1].dtype = "object"
    /\ df.columns[2].vals = IqrTestColumn
    /\ result.items = <<[col |-> "value", count |-> 1]>>

(***************************************************************************)
(* C11. With method 'zscore', detect_outliers on a column that consists of *)
(* a small cluster of values plus one value far away from all of them (the *)
(* test's column [1,2,3,4,5,50]) reports an outlier count greater than 0   *)
(* for that column.  Stated as claimed; with six values no z-score can     *)
(* exceed 5/sqrt(6), about 2.04.                                           *)
(***************************************************************************)
C11_ZscoreFindsFarValue ==
    (fn = "detect_outliers" /\ pc = "returned" /\ method = "zscore")
    => \A k \in 1..Len(result.items) :
           Col(df, result.items[k].col).vals = ZscoreTestColumn
               => result.items[k].count > 0

(***************************************************************************)
(* C12. With method 'zscore', detect_outliers on a column whose values are *)
(* all equal (standard deviation zero) returns the count 0 for that        *)
(* column: it does not raise, and the undefined quotient 0/0 is never      *)
(* counted as an outlier.                                                  *)
(***************************************************************************)
C12_AllEqual(c) == \A i, j \in 1..Len(c) : c[i] = c[j]

C12_ConstantColumnZero ==
    (fn = "detect_outliers" /\ method = "zscore" /\ pc # "sc_outliers")
    => /\ pc = "returned" /\ raised = None
       /\ LET cols == SelectNumber(df)
          IN  /\ Len(result.items) = Len(cols)
              /\ \A k \in 1..Len(cols) :
                    C12_AllEqual(Col(df, cols[k]).vals)
                        => (result.items[k].col = cols[k]
                            /\ result.items[k].count = 0)

\* a constant column of the largest length, nonzero values, beside a text
\* column
C12_Witness ==
    /\ fn = "detect_outliers" /\ pc = "returned" /\ method = "zscore"
    /\ Len(df.columns) = 2 /\ df.columns[1].dtype = "object"
    /\ df.nrows = MaxLen
    /\ \A i \in 1..df.nrows : df.columns[2].vals[i] = MaxValue
    /\ result.items = <<[col |-> "value", count |-> 0]>>

(***************************************************************************)
(* C13. The IQR outlier count of a column is unchanged when the same       *)
(* constant is added to every value of that column: for every column c and *)
(* constant k, detect_outliers(c, 'iqr') = detect_outliers(c + k, 'iqr').  *)
(***************************************************************************)
C13_Shift(c, k) == [i \in 1..Len(c) |-> c[i] + k]

C13_ShiftedFrame(d, k) ==
    DataFrame(d.nrows,
        [i \in 1..Len(d.columns) |->
            IF d.columns[i].dtype = "number"
            THEN Column(d.columns[i].name, "number", C13_Shift(d.columns[i].vals, k))
            ELSE d.columns[i]])

C13_IqrShiftInvariant ==
    (fn = "detect_outliers" /\ pc = "returned" /\ method = "iqr")
    => \A k \in (-MaxShift)..MaxShift :
           OutlierItems(C13_ShiftedFrame(df, k), SelectNumber(df), "iqr")
               = result.items

\* a column with an outlier, whose count stays 1 under the largest shifts
C13_Witness ==
    /\ fn = "detect_outliers" /\ pc = "returned" /\ method = "iqr"
    /\ Len(df.columns) = 1 /\ df.nrows = MaxLen
    /\ result.items = <<[col |-> "value", count |-> 1]>>
    /\ OutlierItems(C13_ShiftedFrame(df, MaxShift), SelectNumber(df), "iqr")
           = result.items
    /\ OutlierItems(C13_ShiftedFrame(df, -MaxShift), SelectNumber(df), "iqr")
           = result.items

(***************************************************************************)
(* C14. detect_duplicates reports as duplicate_rows the number of rows     *)
(* that are value-identical in every column to some earlier row; the first *)
(* occurrence of each distinct row is not counted, so the count equals     *)
(* (number of rows) - (number of distinct rows), and is 0 for an empty     *)
(* dataset.  For rows (Alice,25),(Bob,30),(Alice,25),(Charlie,35) the      *)
(* count is 1.                                                             *)
(***************************************************************************)
C14_DistinctRows(d) ==
    {[i \in 1..Len(d.columns) |-> d.columns[i].vals[r]] : r \in 1..d.nrows}

C14_DuplicateRows ==
    (fn = "detect_duplicates" /\ pc = "returned")
    => /\ error = None /\ raised = None
       /\ result.duplicate_rows = df.nrows - Cardinality(C14_DistinctRows(df))
       /\ df.nrows = 0 => result.duplicate_rows = 0
       /\ df = DuplicatesTestFrame => result.duplicate_rows = 1

\* three rows, the first and the last equal, the middle one different
C14_Witness ==
    /\ fn = "detect_duplicates" /\ pc = "returned"
    /\ df.nrows = 3 /\ Len(df.columns) = 2
    /\ df.columns[1].name = "name"
    /\ df.columns[1].vals = <<"Alice", "Bob", "Alice">>
    /\ df.columns[2].vals = <<25, 30, 25>>
    /\ result.duplicate_rows = 1

(***************************************************************************)
(* C15. check_data_consistency emits, for every numeric column whose name  *)
(* contains 'age', 'count' or 'price' in any letter case, exactly one      *)
(* issue naming the column and the number of rows with a value < 0 when    *)
(* that number is positive, and none when it is zero; other columns never  *)
(* produce a negative-value issue.  The frame of the test gives one issue  *)
(* for age and one for price, each with count 1; data without negatives    *)
(* gives the empty list.                                                   *)
(***************************************************************************)
\* the names of the model that contain one of the three words
C15_QuantityNames == {NameAge, NameAgeUpper, NamePrice, NameDiscount, NameStage}

C15_NegativeIssuesOf(name) ==
    {k \in 1..Len(result.items) :
        result.items[k].rule = "Negative values" /\ result.items[k].col = name}

C15_NegativeValuesRule ==
    (fn = "check_data_consistency" /\ pc = "returned")
    => /\ raised = None
       /\ \A i \in 1..Len(df.columns) :
              LET c == df.columns[i]
                  below == {r \in 1..df.nrows : c.vals[r] < 0}
                  hits == C15_NegativeIssuesOf(c.name)
              IN  IF c.dtype = "number" /\ c.name \in C15_QuantityNames /\ below # {}
                      THEN /\ Cardinality(hits) = 1
                           /\ \A k \in hits : result.items[k].count = Cardinality(below)
                      ELSE hits = {}
       /\ df = ConsistencyTestFrame
              => result.items = <<NegativeIssue(NameAge, 1), NegativeIssue(NamePrice, 1)>>
       /\ df = ConsistencyCleanFrame => result.items = <<>>

\* AGE has one negative value and a zero, score has two negative values
C15_Witness ==
    /\ fn = "check_data_consistency" /\ pc = "returned"
    /\ df.columns = <<Column(NameAgeUpper, "number", <<-5, 0>>),
                      Column(NameScore, "number", <<-5, -5>>)>>
    /\ result.items = <<NegativeIssue(NameAgeUpper, 1)>>

(***************************************************************************)
(* C16. The issues check_data_consistency returns are ordered by the       *)
(* position of their columns in the dataset, also when a datetime column   *)
(* comes before a numeric column; when no column matches either rule the   *)
(* sequence is empty.                                                      *)
(***************************************************************************)
C16_Position(name) == CHOOSE i \in 1..Len(df.columns) : df.columns[i].name = name

C16_OrderedByColumn ==
    (fn = "check_data_consistency" /\ pc = "returned")
    => /\ \A i, j \in 1..Len(result.items) :
              i < j => C16_Position(result.items[i].col) <= C16_Position(result.items[j].col)
       /\ (\A i \in 1..Len(df.columns) :
              /\ df.columns[i].dtype # "datetime"
              /\ df.columns[i].name \notin C15_QuantityNames)
          => result.items = <<>>

(***************************************************************************)
(* C17. check_data_consistency emits, for every datetime column, exactly   *)
(* one issue naming the column and the number of values strictly later     *)
(* than the instant the clock shows when the column is examined, when that *)
(* number is positive, and none otherwise; a value equal to that instant   *)
(* is not counted.  Columns of another type get no future-date issue.      *)
(***************************************************************************)
C17_FutureIssuesOf(items, name) ==
    {k \in 1..Len(items) : items[k].rule = "Future dates" /\ items[k].col = name}

C17_Examined ==
    /\ fn = "check_data_consistency" /\ pc = "cc_future"
    /\ date_cols # <<>> /\ date_cols' = Tail(date_cols)

C17_FutureDatesRule ==
    /\ [][C17_Examined =>
            LET c == Col(df, Head(date_cols))
                later == {r \in 1..df.nrows : c.vals[r] > now}
            IN  /\ c.dtype = "datetime"
                /\ issues' = IF later # {}
                                 THEN Append(issues, FutureIssue(c.name, Cardinality(later)))
                                 ELSE issues]_vars
    /\ []((fn = "check_data_consistency" /\ pc = "returned")
            => \A i \in 1..Len(df.columns) :
                   LET hits == C17_FutureIssuesOf(result.items, df.columns[i].name)
                   IN  /\ Cardinality(hits) <= 1
                       /\ df.columns[i].dtype # "datetime" => hits = {}
                       /\ (\A r \in 1..df.nrows : df.columns[i].vals[r] <= 0) => hits = {})

\* the clock showed 1 when signup was examined: the value 1 is not counted, 2 is
C17_Witness ==
    /\ fn = "check_data_consistency" /\ pc = "returned" /\ now = 1
    /\ df.columns = <<Column(NameSignup, "datetime", <<1, 2>>)>>
    /\ result.items = <<FutureIssue(NameSignup, 1)>>

(***************************************************************************)
(* C18. explain_anomalies returns, in the order of the numeric columns,    *)
(* exactly one explanation for each numeric column where                   *)
(* |mean over anomalous rows - mean over normal rows| is strictly greater  *)
(* than the standard deviation of the normal rows, and none for the other  *)
(* columns; the explanation names the column and says 'higher' when the    *)
(* anomalous mean is above the normal mean and 'lower' when it is below.   *)
(***************************************************************************)
\* sum of v^p over the rows of column col whose flag is `flag`
C18_Sum(col, flag, p) ==
    LET v == Col(df, col).vals
    IN  SumOver([r \in 1..df.nrows |->
                    IF result.anomalies[r] = flag
                        THEN (IF p = 2 THEN v[r] * v[r] ELSE IF p = 1 THEN v[r] ELSE 1)
                        ELSE 0], 1, df.nrows)

\* na * nn * (anomalous mean - normal mean)
C18_Gap(col) ==
    C18_Sum(col, TRUE, 1) * C18_Sum(col, FALSE, 0)
        - C18_Sum(col, FALSE, 1) * C18_Sum(col, TRUE, 0)

\* both means and the deviation are defined and the gap exceeds the deviation:
\* gap^2 / (na nn)^2 > (nn SSn - Sn^2) / (nn (nn - 1))
C18_Differs(col) ==
    LET na == C18_Sum(col, TRUE, 0)
        nn == C18_Sum(col, FALSE, 0)
    IN  /\ na > 0 /\ nn > 1
        /\ C18_Gap(col) * C18_Gap(col) * nn * (nn - 1)
               > (nn * C18_Sum(col, FALSE, 2)
                     - C18_Sum(col, FALSE, 1) * C18_Sum(col, FALSE, 1))
                 * na * nn * na * nn

C18_OneExplanationPerDifferingColumn ==
    (fn = "explain_anomalies" /\ pc = "returned")
    => LET expected == SelectSeq(result.numeric_cols, C18_Differs)
       IN  /\ raised = None
           /\ Len(explanations) = Len(expected)
           /\ \A k \in 1..Len(expected) :
                  /\ explanations[k].col = expected[k]
                  /\ C18_Gap(expected[k]) > 0 => explanations[k].direction = "higher"
                  /\ C18_Gap(expected[k]) < 0 => explanations[k].direction = "lower"

\* feature1 of the anomalous row is 3 against 0, 0; feature2 is 0 against 0, 3
C18_Witness ==
    /\ fn = "explain_anomalies" /\ pc = "returned"
    /\ Len(df.columns) = 2
    /\ df.columns[1].vals = <<0, 0, 3>>
    /\ df.columns[2].vals = <<0, 3, 0>>
    /\ result.anomalies = <<FALSE, FALSE, TRUE>>
    /\ result.numeric_cols = <<FeatureName(1), FeatureName(2)>>
    /\ Len(explanations) = 1
    /\ explanations[1].col = FeatureName(1)
    /\ explanations[1].direction = "higher"

(***************************************************************************)
(* C19. explain_anomalies returns an empty sequence without raising        *)
(* whenever no row is flagged anomalous, for every dataset and every set   *)
(* of numeric columns; the undefined mean of the empty subset never        *)
(* produces an explanation.                                                *)
(***************************************************************************)
C19_NoAnomalyNoExplanation ==
    (/\ fn = "explain_anomalies" /\ pc # "ex_explain"
     /\ \A r \in 1..df.nrows : ~result.anomalies[r])
    => /\ pc = "returned" /\ raised = None
       /\ explanations = <<>>

\* three unflagged rows that all hold 3 in feature1: mean 3, deviation 0
C19_Witness ==
    /\ fn = "explain_anomalies" /\ pc = "returned"
    /\ Len(df.columns) = 2
    /\ df.columns[1].vals = <<3, 3, 3>>
    /\ result.anomalies = <<FALSE, FALSE, FALSE>>
    /\ result.numeric_cols = <<FeatureName(2), FeatureName(1)>>
    /\ explanations = <<>>

(***************************************************************************)
(* C20. Every detector is deterministic: calling it twice with the same    *)
(* dataset and the same configuration yields the same output, whatever     *)
(* else happened between the two calls (other calls, passage of time).     *)
(* Stated for check_data_consistency: the list the second call returns is  *)
(* the list the first call returned.                                       *)
(***************************************************************************)
C20_SameOutputTwice ==
    (fn = "check_data_consistency" /\ pc = "returned" /\ previous # None)
    => result = previous

(***************************************************************************)
(* C21. Any two engine calls that run interleaved, each on its own dataset *)
(* and configuration, return the same results as when they run one after   *)
(* the other: no engine call reads or writes state that another call can   *)
(* observe.  Each returned call holds what its function returns for its    *)
(* own arguments alone (for check_data_consistency: with each datetime     *)
(* column compared against an instant the clock has shown).                *)
(***************************************************************************)
\* the future-date issues of columns dc[i..], column j examined at instant ts[j]
RECURSIVE C21_Future(_, _, _, _)
C21_Future(d, dc, ts, i) ==
    IF i > Len(dc) THEN <<>>
    ELSE LET n == Cardinality({r \in 1..d.nrows : Col(d, dc[i]).vals[r] > ts[i]})
         IN  (IF n > 0 THEN <<FutureIssue(dc[i], n)>> ELSE <<>>)
                 \o C21_Future(d, dc, ts, i + 1)

\* what the function of the call returns when it runs alone
C21_Alone(call) ==
    CASE call.fn = "detect_outliers" ->
            {OutlierItems(call.df, SelectNumber(call.df), call.arg)}
      [] call.fn = "detect_duplicates" ->
            {<<[key |-> "duplicate_rows", value |-> SumMask(Duplicated(call.df))],
               [key |-> "duplicate_columns",
                value |-> SumMask(ColumnsDuplicated(call.df))]>>}
      [] call.fn = "check_data_consistency" ->
            {NegativeLoop(call.df, SelectNumber(call.df), <<>>)
                \o C21_Future(call.df, SelectDatetime(call.df), ts, 1) :
                ts \in [1..Len(SelectDatetime(call.df)) -> 0..now]}
      [] call.fn = "explain_anomalies" ->
            {ExplainLoop(call.df, call.arg.anomalies, call.arg.numeric_cols, <<>>)}

C22_DatasetNotModified ==
    [][(fn \in {"detect_time_series_anomalies", "explain_anomalies"} /\ pc # "idle")
          => df' = df]_vars

\* a call has returned rows in another order than the caller's frame, whose
\* time column still holds the strings and which has no added column
C22_Witness ==
    /\ fn = "detect_time_series_anomalies" /\ pc = "returned" /\ result # None
    /\ df.nrows = 2
    /\ result.index = <<2, 1>>
    /\ Columns(df) = {"date", "value"}
    /\ Col(df, "date").dtype = "object"
    /\ Col(df, "date").vals = <<Dates[2], Dates[1]>>

(***************************************************************************)
(* C23. detect_glitches reports a 'Cycle detected' glitch exactly when the *)
(* directed graph contains a directed cycle, and an 'Isolated nodes'       *)
(* glitch exactly when some node has no incoming and no outgoing edge; a   *)
(* simple chain A->B->C->D yields neither.                                 *)
(***************************************************************************)
\* the nodes reached from the set S by one or more edges, found in k rounds
RECURSIVE C23_Reached(_, _)
C23_Reached(S, k) ==
    LET next == {e[2] : e \in {e \in G.edges : e[1] \in S}}
    IN  IF k = 0 THEN {} ELSE next \cup C23_Reached(next, k - 1)

C23_HasCycle == \E n \in G.nodes : n \in C23_Reached({n}, Cardinality(G.nodes))

C23_Reports(kind) == \E k \in 1..Len(result.items) : result.items[k].glitch = kind

C23_CycleAndIsolatedGlitches ==
    (fn = "detect_glitches" /\ pc = "returned")
    => /\ raised = None
       /\ C23_Reports("Cycle detected") <=> C23_HasCycle
       /\ C23_Reports("Isolated nodes")
              <=> \E n \in G.nodes : \A e \in G.edges : e[1] # n /\ e[2] # n
       /\ G = ChainTestGraph
              => ~C23_Reports("Cycle detected") /\ ~C23_Reports("Isolated nodes")

\* the cycle B -> C -> B behind A, and the node D on its own
C23_Witness ==
    /\ fn = "detect_glitches" /\ pc = "returned"
    /\ G = DiGraph(Nodes, {<<"A", "B">>, <<"B", "C">>, <<"C", "B">>})
    /\ Len(result.items) = 2
    /\ result.items[1].glitch = "Cycle detected"
    /\ result.items[2] = Glitch("Isolated nodes", {"D"})

(***************************************************************************)
(* C24. In detect_anomalies the steps run in the order select numeric      *)
(* columns, standardize, fit, label: for each of the three algorithms      *)
(* exactly one model is constructed and it is fitted on this call's        *)
(* standardized data before any label or score is read from it.  Stated    *)
(* for datasets with a numeric column, two rows or more and the default    *)
(* contamination: the call ends with the model of the chosen algorithm     *)
(* fitted.  The code asks an Isolation Forest and a One-Class SVM for      *)
(* labels without fitting them.                                            *)
(***************************************************************************)
C24_FittedBeforeLabels ==
    (/\ fn = "detect_anomalies" /\ Terminated
     /\ algorithm \in Algorithms
     /\ Len(SelectNumber(df)) >= 1 /\ df.nrows >= 2 /\ contamination = 10)
    => /\ model.kind = algorithm
       /\ model.fitted
       /\ predictions # Unbound

(***************************************************************************)
(* C25. With method 'zscore', detect_outliers never counts any value as an *)
(* outlier in a column of at most 10 values, whatever the values are: with *)
(* the sample standard deviation, |x - mean| <= ((n-1)/sqrt(n)) * std for  *)
(* every value of an n-value column, and (n-1)/sqrt(n) < 3 for n <= 10.    *)
(***************************************************************************)
\* n^2 (x - mean)^2 <= (n - 1) (n sum(x^2) - sum(x)^2), the bound squared
C25_DeviationBound(c) ==
    LET n == Len(c)
        s == SumOver(c, 1, n)
        ss == SumOver(Squares(c), 1, n)
    IN  \A i \in 1..n : (n * c[i] - s) * (n * c[i] - s) <= (n - 1) * (n * ss - s * s)

C26_SelectedMethodRecognised ==
    (fn = "run_sanity_checker" /\ pc = "returned")
    => /\ method \in {"iqr", "zscore"}
       /\ Len(result.items) = Len(SelectNumber(df))
       /\ \A k \in 1..Len(result.items) : result.items[k].col = SelectNumber(df)[k]

(***************************************************************************)
(* C27. In detect_time_series_anomalies, a row whose full trailing window  *)
(* holds w equal values (rolling standard deviation zero) is reported as   *)
(* not anomalous for every threshold >= 0, and the call does not raise.    *)
(* Stated for calls whose columns exist, whose time values parse and whose *)
(* window is at least 1.                                                   *)
(***************************************************************************)
\* the value at position j of the time-sorted rows
C27_Value(j) == Col(df, value_col).vals[result.index[j]]

C27_ConstantWindowNotFlagged ==
    (/\ fn = "detect_time_series_anomalies" /\ Terminated
     /\ threshold >= 0 /\ window >= 1
     /\ time_col \in Columns(df) /\ value_col \in Columns(df)
     /\ \A r \in 1..df.nrows : Parseable(Col(df, time_col).vals[r]))
    => /\ pc = "returned" /\ raised = None /\ result # None
       /\ \A i \in window..df.nrows :
              (\A j \in (i - window + 1)..i : C27_Value(j) = C27_Value(i))
                  => ~result.anomalies[i]

\* values 1, 1, 2 with window 2 and threshold 0: the window 1, 1 has standard
\* deviation 0 and is not flagged, the window 1, 2 is
C27_Witness ==
    /\ fn = "detect_time_series_anomalies" /\ pc = "returned" /\ result # None
    /\ window = 2 /\ threshold = 0
    /\ df.nrows = 3
    /\ Col(df, "date").vals = <<Dates[1], Dates[1], Dates[2]>>
    /\ value_col = "value" /\ Col(df, "value").vals = <<1, 1, 2>>
    /\ result.rolling_std[2] = Number(1, 0, 2)
    /\ result.z_scores[2] = NaN
    /\ result.anomalies = <<FALSE, FALSE, TRUE>>

(***************************************************************************)
(* C28. In challenge mode, after any sequence of Get Hint, Submit Answer   *)
(* (right or wrong) and Reset Progress actions, whenever a challenge of    *)
(* level 1..5 is rendered the session's start_time is a defined timestamp, *)
(* so the elapsed time shown by the timer and used for scoring can be      *)
(* computed.                                                               *)
(***************************************************************************)
C28_StartTimeDefined ==
    (fn = "run_challenge_mode" /\ shown.kind = "challenge"
        /\ shown.level \in 1..NumChallenges)
    => /\ shown.start_time # None
       /\ shown.elapsed_time # None
       /\ raised = None

(***************************************************************************)
(* C29. In SimulatedAWS, after any sequence of create_bucket and           *)
(* upload_data calls, download_data(b, k) returns the data last uploaded   *)
(* to bucket b under key k and None when k was never uploaded to b, and    *)
(* list_objects(b) lists exactly the keys uploaded to b; uploading key k   *)
(* to another bucket, or calling create_bucket on an existing bucket,      *)
(* changes neither.                                                        *)
(***************************************************************************)
\* the positions of the uploads made to bucket b under key k
C29_Uploads(b, k) ==
    {i \in 1..Len(uploads) : uploads[i].bucket_name = b /\ uploads[i].key = k}

C29_LastUploaded(b, k) ==
    IF C29_Uploads(b, k) = {} THEN None
    ELSE uploads[CHOOSE i \in C29_Uploads(b, k) : \A j \in C29_Uploads(b, k) : j <= i].data

C29_ObjectsPerBucket ==
    /\ (fn = "download_data" /\ pc = "returned")
           => result = C29_LastUploaded(request.bucket_name, request.key)
    /\ (fn = "list_objects" /\ pc = "returned")
           => Range(result.items) = {k \in Keys : C29_Uploads(request.bucket_name, k) # {}}

(***************************************************************************)
(* C30. The dashboard lists 'Sanity Checker -> Anomaly Detection' as an    *)
(* active data share only after the user has pressed 'Send to Anomaly      *)
(* Detection' in the sanity checker: in every session in which that button *)
(* was never pressed, whatever pages were opened before, the share is not  *)
(* listed.                                                                 *)
(***************************************************************************)
C30_ShareListedOnlyAfterSend ==
    (fn = "main" /\ shown.kind = "Dashboard"
        /\ \E i \in 1..Len(shown.shared_data) : shown.shared_data[i] = SanityToAnomaly)
    => pressed

====
